---- MODULE Spec2Model ----
(***************************************************************************)
(* Focus-scoped command routing of taskwarrior-gpui: key chords, layered   *)
(* keymap resolution, the focus-target state machine of the root view and  *)
(* the dispatch of resolved commands to the table and the sidebar.         *)
(***************************************************************************)
EXTENDS Integers, Sequences, FiniteSets, TLC

(***************************************************************************)
(* Bounds of the model.                                                    *)
(***************************************************************************)
\* most layers on a KeymapStack
MaxLayers == 2
\* most bind calls on one KeymapLayer
MaxBinds == 2
\* most rows a (re)loaded, filtered task list has
MaxRows == 3
\* PaginationState.page_size, scaled down from the default of 20
PageSize == 2
\* most events (key presses, clicks, sync requests) one run of the App handles
MaxEvents == 4
\* most key presses in a row followed when asking where the focus can go
MaxKeys == 2

(***************************************************************************)
(* Vocabulary: Option::None, ContextId, KeyChord.                          *)
(***************************************************************************)
NoCmd == "none"

NoLayer == "nolayer"

ContextId ==
    {"Global", "Table", "TableHeaders", "SidebarProjects", "SidebarTags",
     "Modal", "FilterBar", "TextInput"}

Mods_none == {}

Mods_ctrl == {"ctrl"}

Mods_shift == {"shift"}

KeyChord_new(key, mods) == [key |-> key, mods |-> mods]

(***************************************************************************)
(* KeymapLayer: a rule table (context, chord) -> command, kept as the set  *)
(* of its entries; bind overwrites the entry of the exact pair.            *)
(***************************************************************************)
KeymapLayer_new == {}

\* mutant: an entry already present is kept (entry().or_insert)
KeymapLayer_bind_keep_first(l, context, chord, command) ==
    IF \E b \in l : b.context = context /\ b.chord = chord THEN l
    ELSE l \cup {[context |-> context, chord |-> chord, command |-> command]}

KeymapLayer_bind(l, context, chord, command) ==
    {b \in l : ~(b.context = context /\ b.chord = chord)}
        \cup {[context |-> context, chord |-> chord, command |-> command]}

KeymapLayer_resolve_global_fallback(l, context, chord) ==
    LET hits == {b \in l : b.context = context /\ b.chord = chord}
        glob == {b \in l : b.context = "Global" /\ b.chord = chord}
    IN  IF hits # {} THEN (CHOOSE b \in hits : TRUE).command
        ELSE IF glob # {} THEN (CHOOSE b \in glob : TRUE).command
        ELSE NoCmd

KeymapLayer_resolve(l, context, chord) ==
    LET hits == {b \in l : b.context = context /\ b.chord = chord}
    IN  IF hits = {} THEN NoCmd ELSE (CHOOSE b \in hits : TRUE).command

(***************************************************************************)
(* KeymapStack: layers in push order, the last one has the highest         *)
(* priority.                                                               *)
(***************************************************************************)
KeymapStack_new == << >>

KeymapStack_push_layer(layers, l) == Append(layers, l)

KeymapStack_pop_layer_front(layers) ==
    IF Len(layers) = 0
    THEN [layers |-> layers, value |-> NoLayer]
    ELSE [layers |-> Tail(layers), value |-> Head(layers)]

KeymapStack_pop_layer(layers) ==
    IF Len(layers) = 0
    THEN [layers |-> layers, value |-> NoLayer]
    ELSE [layers |-> SubSeq(layers, 1, Len(layers) - 1),
          value |-> layers[Len(layers)]]

\* `for layer in self.layers.iter().rev()`: the first layer, from index i
\* down to 1, that binds the pair
RECURSIVE StackWalk(_, _, _, _)
StackWalk(layers, i, context, chord) ==
    IF i = 0 THEN NoCmd
    ELSE LET cmd == KeymapLayer_resolve(layers[i], context, chord)
         IN  IF cmd # NoCmd THEN cmd
             ELSE StackWalk(layers, i - 1, context, chord)

\* mutant: one walk, each layer asked for the pair and then for Global
RECURSIVE StackWalkMerged(_, _, _, _)
StackWalkMerged(layers, i, context, chord) ==
    IF i = 0 THEN NoCmd
    ELSE LET cmd == KeymapLayer_resolve(layers[i], context, chord)
             glb == KeymapLayer_resolve(layers[i], "Global", chord)
         IN  IF cmd # NoCmd THEN cmd
             ELSE IF glb # NoCmd THEN glb
             ELSE StackWalkMerged(layers, i - 1, context, chord)

KeymapStack_resolve_merged(layers, context, chord) ==
    StackWalkMerged(layers, Len(layers), context, chord)

\* mutant: the Global pass walks the layers oldest first
RECURSIVE StackWalkUp(_, _, _, _)
StackWalkUp(layers, i, context, chord) ==
    IF i > Len(layers) THEN NoCmd
    ELSE LET cmd == KeymapLayer_resolve(layers[i], context, chord)
         IN  IF cmd # NoCmd THEN cmd
             ELSE StackWalkUp(layers, i + 1, context, chord)

KeymapStack_resolve_global_oldest(layers, context, chord) ==
    LET cmd == StackWalk(layers, Len(layers), context, chord)
    IN  IF cmd # NoCmd THEN cmd
        ELSE IF context # "Global"
             THEN StackWalkUp(layers, 1, "Global", chord)
             ELSE NoCmd

\* mutant: the exact pass walks the layers oldest first
KeymapStack_resolve_oldest(layers, context, chord) ==
    LET cmd == StackWalkUp(layers, 1, context, chord)
    IN  IF cmd # NoCmd THEN cmd
        ELSE IF context # "Global"
             THEN StackWalk(layers, Len(layers), "Global", chord)
             ELSE NoCmd

\* mutant: the exact pass only, no Global pass
KeymapStack_resolve_exact(layers, context, chord) ==
    StackWalk(layers, Len(layers), context, chord)

\* mutant: a chord bound neither in the context nor in Global falls back
\* to the bindings of the Table context
KeymapStack_resolve_table_fallback(layers, context, chord) ==
    LET cmd == StackWalk(layers, Len(layers), context, chord)
        glb == StackWalk(layers, Len(layers), "Global", chord)
    IN  IF cmd # NoCmd THEN cmd
        ELSE IF context # "Global" /\ glb # NoCmd THEN glb
        ELSE IF context # "Global"
             THEN StackWalk(layers, Len(layers), "Table", chord)
             ELSE NoCmd

KeymapStack_resolve(layers, context, chord) ==
    LET cmd == StackWalk(layers, Len(layers), context, chord)
    IN  IF cmd # NoCmd THEN cmd
        ELSE IF context # "Global"
             THEN StackWalk(layers, Len(layers), "Global", chord)
             ELSE NoCmd

\* the Command enum, and the two modal scroll commands build_default_keymap
\* binds
Command ==
    {"SelectNextRow", "SelectPrevRow", "SelectFirstRow", "SelectLastRow",
     "NextPage", "PrevPage", "ClearSelection", "OpenSelectedTask", "Sync",
     "FocusSearch", "FocusTable", "FocusTableHeaders", "FocusSidebar",
     "FocusSidebarProjects", "FocusSidebarTags", "BlurInput", "CloseModal",
     "SaveModal", "ApplySearch", "ClearFilters", "ClearAllFilters",
     "ClearProjectFilter", "ClearTagFilter", "ClearSearchAndDropdowns",
     "FocusFilterNext", "FocusFilterPrev", "ToggleDropdown", "SelectNextOption",
     "SelectPrevOption", "ExpandProject", "CollapseProject", "HeaderMoveNext",
     "HeaderMovePrev", "HeaderCycleSortOrder", "ModalScrollDown",
     "ModalScrollUp"}

(***************************************************************************)
(* Strings: a string is the sequence of its characters, a character a      *)
(* one-letter name. E_acute and e_acute stand for the letters U+00C9 and   *)
(* U+00E9, which take two bytes each.                                      *)
(***************************************************************************)
UpperCase ==
    <<"A", "B", "C", "D", "E", "F", "G", "H", "I", "J", "K", "L", "M",
      "N", "O", "P", "Q", "R", "S", "T", "U", "V", "W", "X", "Y", "Z">>

LowerCase ==
    <<"a", "b", "c", "d", "e", "f", "g", "h", "i", "j", "k", "l", "m",
      "n", "o", "p", "q", "r", "s", "t", "u", "v", "w", "x", "y", "z">>

\* char::to_lowercase
char_to_lowercase(c) ==
    IF c = "E_acute" THEN "e_acute"
    ELSE IF \E i \in DOMAIN UpperCase : UpperCase[i] = c
    THEN LowerCase[CHOOSE i \in DOMAIN UpperCase : UpperCase[i] = c]
    ELSE c

\* str::to_lowercase
to_lowercase(s) == [i \in DOMAIN s |-> char_to_lowercase(s[i])]

\* char::len_utf8
len_utf8(c) == IF c \in {"E_acute", "e_acute"} THEN 2 ELSE 1

\* str::len, which counts bytes
RECURSIVE str_len(_)
str_len(s) == IF s = << >> THEN 0 ELSE len_utf8(Head(s)) + str_len(Tail(s))

\* str::split(sep): the pieces between the separators, at least one
RECURSIVE str_split(_, _)
str_split(s, sep) ==
    IF \A i \in DOMAIN s : s[i] # sep THEN <<s>>
    ELSE LET i == CHOOSE k \in DOMAIN s :
                     s[k] = sep /\ \A m \in 1..(k - 1) : s[m] # sep
         IN  <<SubSeq(s, 1, i - 1)>> \o str_split(SubSeq(s, i + 1, Len(s)), sep)

\* [&str]::join(sep)
RECURSIVE str_join(_, _)
str_join(parts, sep) ==
    IF parts = << >> THEN << >>
    ELSE IF Len(parts) = 1 THEN parts[1]
    ELSE parts[1] \o <<sep>> \o str_join(Tail(parts), sep)

(***************************************************************************)
(* Key, Mods and KeyChord: a named key is its variant's name, Key::Char(c) *)
(* is the character c.                                                     *)
(***************************************************************************)
NoKey == "nokey"

NoChord == [key |-> NoKey, mods |-> {}]

NamedKeys ==
    {"Enter", "Escape", "Backspace", "Delete", "Tab", "Space", "ArrowUp",
     "ArrowDown", "ArrowLeft", "ArrowRight", "PageUp", "PageDown", "Home",
     "End", "F1", "F2", "F3", "F4", "F5", "F6", "F7", "F8", "F9", "F10", "F11",
     "F12"}

Key_from_str(s) ==
    LET s2 == to_lowercase(s)
    IN  CASE s2 \in {<<"e", "n", "t", "e", "r">>, <<"r", "e", "t", "u", "r", "n">>} -> "Enter"
          [] s2 \in {<<"e", "s", "c">>, <<"e", "s", "c", "a", "p", "e">>} -> "Escape"
          [] s2 \in {<<"b", "a", "c", "k", "s", "p", "a", "c", "e">>} -> "Backspace"
          [] s2 \in {<<"d", "e", "l", "e", "t", "e">>, <<"d", "e", "l">>} -> "Delete"
          [] s2 \in {<<"t", "a", "b">>} -> "Tab"
          [] s2 \in {<<"s", "p", "a", "c", "e">>} -> "Space"
          [] s2 \in {<<"u", "p">>, <<"a", "r", "r", "o", "w", "u", "p">>} -> "ArrowUp"
          [] s2 \in {<<"d", "o", "w", "n">>, <<"a", "r", "r", "o", "w", "d", "o", "w", "n">>} -> "ArrowDown"
          [] s2 \in {<<"l", "e", "f", "t">>, <<"a", "r", "r", "o", "w", "l", "e", "f", "t">>} -> "ArrowLeft"
          [] s2 \in {<<"r", "i", "g", "h", "t">>, <<"a", "r", "r", "o", "w", "r", "i", "g", "h", "t">>} -> "ArrowRight"
          [] s2 \in {<<"p", "a", "g", "e", "u", "p">>} -> "PageUp"
          [] s2 \in {<<"p", "a", "g", "e", "d", "o", "w", "n">>} -> "PageDown"
          [] s2 \in {<<"h", "o", "m", "e">>} -> "Home"
          [] s2 \in {<<"e", "n", "d">>} -> "End"
          [] s2 \in {<<"f", "1">>} -> "F1"
          [] s2 \in {<<"f", "2">>} -> "F2"
          [] s2 \in {<<"f", "3">>} -> "F3"
          [] s2 \in {<<"f", "4">>} -> "F4"
          [] s2 \in {<<"f", "5">>} -> "F5"
          [] s2 \in {<<"f", "6">>} -> "F6"
          [] s2 \in {<<"f", "7">>} -> "F7"
          [] s2 \in {<<"f", "8">>} -> "F8"
          [] s2 \in {<<"f", "9">>} -> "F9"
          [] s2 \in {<<"f", "1", "0">>} -> "F10"
          [] s2 \in {<<"f", "1", "1">>} -> "F11"
          [] s2 \in {<<"f", "1", "2">>} -> "F12"
          [] str_len(s2) = 1 -> s2[1]
          [] OTHER -> NoKey

\* Display for Key
Key_to_string(key) ==
    CASE key = "Enter" -> <<"E", "n", "t", "e", "r">>
      [] key = "Escape" -> <<"E", "s", "c">>
      [] key = "Backspace" -> <<"B", "a", "c", "k", "s", "p", "a", "c", "e">>
      [] key = "Delete" -> <<"D", "e", "l">>
      [] key = "Tab" -> <<"T", "a", "b">>
      [] key = "Space" -> <<"S", "p", "a", "c", "e">>
      [] key = "ArrowUp" -> <<"U", "p">>
      [] key = "ArrowDown" -> <<"D", "o", "w", "n">>
      [] key = "ArrowLeft" -> <<"L", "e", "f", "t">>
      [] key = "ArrowRight" -> <<"R", "i", "g", "h", "t">>
      [] key = "PageUp" -> <<"P", "a", "g", "e", "U", "p">>
      [] key = "PageDown" -> <<"P", "a", "g", "e", "D", "o", "w", "n">>
      [] key = "Home" -> <<"H", "o", "m", "e">>
      [] key = "End" -> <<"E", "n", "d">>
      [] key = "F1" -> <<"F", "1">>
      [] key = "F2" -> <<"F", "2">>
      [] key = "F3" -> <<"F", "3">>
      [] key = "F4" -> <<"F", "4">>
      [] key = "F5" -> <<"F", "5">>
      [] key = "F6" -> <<"F", "6">>
      [] key = "F7" -> <<"F", "7">>
      [] key = "F8" -> <<"F", "8">>
      [] key = "F9" -> <<"F", "9">>
      [] key = "F10" -> <<"F", "1", "0">>
      [] key = "F11" -> <<"F", "1", "1">>
      [] key = "F12" -> <<"F", "1", "2">>
      [] OTHER -> <<key>>

Mods_alt == {"alt"}

Mods_platform == {"platform"}

\* Display for Mods
Mods_to_string(mods) ==
    str_join((IF "platform" \in mods THEN <<<<"C", "m", "d">>>> ELSE << >>)
             \o (IF "ctrl" \in mods THEN <<<<"C", "t", "r", "l">>>> ELSE << >>)
             \o (IF "alt" \in mods THEN <<<<"A", "l", "t">>>> ELSE << >>)
             \o (IF "shift" \in mods THEN <<<<"S", "h", "i", "f", "t">>>> ELSE << >>),
             "+")

\* Display for KeyChord
KeyChord_to_string(chord) ==
    IF chord.mods # {}
    THEN Mods_to_string(chord.mods) \o <<"+">> \o Key_to_string(chord.key)
    ELSE Key_to_string(chord.key)

\* the modifier a token of KeyChord::parse names, "none" if it names none
ModOfToken(part) ==
    LET t == to_lowercase(part)
    IN  CASE t = <<"c", "t", "r", "l">> -> "ctrl"
          [] t = <<"a", "l", "t">> -> "alt"
          [] t = <<"s", "h", "i", "f", "t">> -> "shift"
          [] t \in {<<"c", "m", "d">>, <<"s", "u", "p", "e", "r">>, <<"p", "l", "a", "t", "f", "o", "r", "m">>} -> "platform"
          [] OTHER -> "none"

\* mutant: a token that names no modifier is skipped
KeyChord_parse_lenient(s) ==
    LET parts == str_split(s, "+")
        front == SubSeq(parts, 1, Len(parts) - 1)
        key == Key_from_str(parts[Len(parts)])
    IN  IF key = NoKey THEN NoChord
        ELSE [key |-> key,
              mods |-> {ModOfToken(front[i]) : i \in DOMAIN front} \ {"none"}]

KeyChord_parse(s) ==
    LET parts == str_split(s, "+")
        front == SubSeq(parts, 1, Len(parts) - 1)
        key == Key_from_str(parts[Len(parts)])
    IN  IF \E i \in DOMAIN front : ModOfToken(front[i]) = "none" THEN NoChord
        ELSE IF key = NoKey THEN NoChord
        ELSE [key |-> key, mods |-> {ModOfToken(front[i]) : i \in DOMAIN front}]

(***************************************************************************)
(* Chords of live key events: KeyChord::from_gpui.                         *)
(***************************************************************************)
key_from_gpui(key_str) ==
    LET normalized == to_lowercase(key_str)
    IN  CASE normalized \in {<<"e", "n", "t", "e", "r">>, <<"r", "e", "t", "u", "r", "n">>} -> "Enter"
          [] normalized \in {<<"e", "s", "c", "a", "p", "e">>, <<"e", "s", "c">>} -> "Escape"
          [] normalized \in {<<"b", "a", "c", "k", "s", "p", "a", "c", "e">>} -> "Backspace"
          [] normalized \in {<<"d", "e", "l", "e", "t", "e">>, <<"d", "e", "l">>} -> "Delete"
          [] normalized \in {<<"t", "a", "b">>} -> "Tab"
          [] normalized \in {<<" ">>, <<"s", "p", "a", "c", "e">>} -> "Space"
          [] normalized \in {<<"a", "r", "r", "o", "w", "u", "p">>, <<"u", "p">>} -> "ArrowUp"
          [] normalized \in {<<"a", "r", "r", "o", "w", "d", "o", "w", "n">>, <<"d", "o", "w", "n">>} -> "ArrowDown"
          [] normalized \in {<<"a", "r", "r", "o", "w", "l", "e", "f", "t">>, <<"l", "e", "f", "t">>} -> "ArrowLeft"
          [] normalized \in {<<"a", "r", "r", "o", "w", "r", "i", "g", "h", "t">>, <<"r", "i", "g", "h", "t">>} -> "ArrowRight"
          [] normalized \in {<<"p", "a", "g", "e", "u", "p">>} -> "PageUp"
          [] normalized \in {<<"p", "a", "g", "e", "d", "o", "w", "n">>} -> "PageDown"
          [] normalized \in {<<"h", "o", "m", "e">>} -> "Home"
          [] normalized \in {<<"e", "n", "d">>} -> "End"
          [] normalized \in {<<"f", "1">>} -> "F1"
          [] normalized \in {<<"f", "2">>} -> "F2"
          [] normalized \in {<<"f", "3">>} -> "F3"
          [] normalized \in {<<"f", "4">>} -> "F4"
          [] normalized \in {<<"f", "5">>} -> "F5"
          [] normalized \in {<<"f", "6">>} -> "F6"
          [] normalized \in {<<"f", "7">>} -> "F7"
          [] normalized \in {<<"f", "8">>} -> "F8"
          [] normalized \in {<<"f", "9">>} -> "F9"
          [] normalized \in {<<"f", "1", "0">>} -> "F10"
          [] normalized \in {<<"f", "1", "1">>} -> "F11"
          [] normalized \in {<<"f", "1", "2">>} -> "F12"
          [] str_len(normalized) = 1 -> normalized[1]
          [] OTHER -> IF str_len(key_str) = 1 THEN key_str[1] ELSE NoKey

KeyChord_from_gpui(event) ==
    LET key == key_from_gpui(event.key)
    IN  IF key = NoKey THEN NoChord ELSE KeyChord_new(key, event.mods)

(***************************************************************************)
(* The default keymap layer, in the order build_default_keymap binds it.   *)
(***************************************************************************)
DefaultBindings ==
    << <<"Global", "r", Mods_ctrl, "Sync">>,
       <<"Global", "f", Mods_ctrl, "FocusSearch">>,
       <<"Global", "Escape", Mods_none, "CloseModal">>,
       <<"Global", "Tab", Mods_none, "FocusTable">>,
       <<"Global", "Tab", Mods_shift, "FocusSidebar">>,
       <<"Global", "c", Mods_ctrl, "ClearAllFilters">>,
       <<"Global", "p", Mods_ctrl, "ClearProjectFilter">>,
       <<"Global", "t", Mods_ctrl, "ClearTagFilter">>,
       <<"Global", "x", Mods_ctrl, "ClearSearchAndDropdowns">>,
       <<"Table", "h", Mods_ctrl, "FocusSidebarProjects">>,
       <<"Table", "k", Mods_ctrl, "FocusTableHeaders">>,
       <<"Table", "j", Mods_none, "SelectNextRow">>,
       <<"Table", "k", Mods_none, "SelectPrevRow">>,
       <<"Table", "ArrowDown", Mods_none, "SelectNextRow">>,
       <<"Table", "ArrowUp", Mods_none, "SelectPrevRow">>,
       <<"Table", "g", Mods_none, "SelectFirstRow">>,
       <<"Table", "g", Mods_shift, "SelectLastRow">>,
       <<"Table", "Home", Mods_none, "SelectFirstRow">>,
       <<"Table", "End", Mods_none, "SelectLastRow">>,
       <<"Table", "PageDown", Mods_none, "NextPage">>,
       <<"Table", "PageUp", Mods_none, "PrevPage">>,
       <<"Table", "l", Mods_none, "NextPage">>,
       <<"Table", "h", Mods_none, "PrevPage">>,
       <<"Table", "Escape", Mods_none, "ClearSelection">>,
       <<"Table", "Enter", Mods_none, "OpenSelectedTask">>,
       <<"Table", "ArrowLeft", Mods_none, "CollapseProject">>,
       <<"Table", "ArrowRight", Mods_none, "ExpandProject">>,
       <<"TableHeaders", "h", Mods_none, "HeaderMovePrev">>,
       <<"TableHeaders", "l", Mods_none, "HeaderMoveNext">>,
       <<"TableHeaders", "ArrowLeft", Mods_none, "HeaderMovePrev">>,
       <<"TableHeaders", "ArrowRight", Mods_none, "HeaderMoveNext">>,
       <<"TableHeaders", "j", Mods_none, "HeaderCycleSortOrder">>,
       <<"TableHeaders", "k", Mods_none, "HeaderCycleSortOrder">>,
       <<"TableHeaders", "Enter", Mods_none, "HeaderCycleSortOrder">>,
       <<"TableHeaders", "Space", Mods_none, "HeaderCycleSortOrder">>,
       <<"TableHeaders", "j", Mods_ctrl, "FocusTable">>,
       <<"TableHeaders", "k", Mods_ctrl, "FocusSearch">>,
       <<"SidebarProjects", "l", Mods_ctrl, "FocusTable">>,
       <<"SidebarProjects", "j", Mods_ctrl, "FocusSidebarTags">>,
       <<"SidebarProjects", "j", Mods_none, "SelectNextRow">>,
       <<"SidebarProjects", "k", Mods_none, "SelectPrevRow">>,
       <<"SidebarProjects", "ArrowDown", Mods_none, "SelectNextRow">>,
       <<"SidebarProjects", "ArrowUp", Mods_none, "SelectPrevRow">>,
       <<"SidebarProjects", "g", Mods_none, "SelectFirstRow">>,
       <<"SidebarProjects", "g", Mods_shift, "SelectLastRow">>,
       <<"SidebarProjects", "h", Mods_none, "CollapseProject">>,
       <<"SidebarProjects", "l", Mods_none, "ExpandProject">>,
       <<"SidebarProjects", "ArrowLeft", Mods_none, "CollapseProject">>,
       <<"SidebarProjects", "ArrowRight", Mods_none, "ExpandProject">>,
       <<"SidebarProjects", "Enter", Mods_none, "OpenSelectedTask">>,
       <<"SidebarProjects", "Space", Mods_none, "OpenSelectedTask">>,
       <<"SidebarTags", "l", Mods_ctrl, "FocusTable">>,
       <<"SidebarTags", "k", Mods_ctrl, "FocusSidebarProjects">>,
       <<"SidebarTags", "j", Mods_none, "SelectNextRow">>,
       <<"SidebarTags", "k", Mods_none, "SelectPrevRow">>,
       <<"SidebarTags", "ArrowDown", Mods_none, "SelectNextRow">>,
       <<"SidebarTags", "ArrowUp", Mods_none, "SelectPrevRow">>,
       <<"SidebarTags", "g", Mods_none, "SelectFirstRow">>,
       <<"SidebarTags", "g", Mods_shift, "SelectLastRow">>,
       <<"SidebarTags", "Enter", Mods_none, "OpenSelectedTask">>,
       <<"SidebarTags", "Space", Mods_none, "OpenSelectedTask">>,
       <<"TextInput", "Escape", Mods_none, "BlurInput">>,
       <<"TextInput", "Enter", Mods_none, "ApplySearch">>,
       <<"TextInput", "l", Mods_ctrl, "FocusFilterNext">>,
       <<"TextInput", "h", Mods_ctrl, "FocusFilterPrev">>,
       <<"TextInput", "j", Mods_ctrl, "FocusTableHeaders">>,
       <<"FilterBar", "Enter", Mods_none, "ToggleDropdown">>,
       <<"FilterBar", "Space", Mods_none, "ToggleDropdown">>,
       <<"FilterBar", "j", Mods_none, "SelectNextOption">>,
       <<"FilterBar", "k", Mods_none, "SelectPrevOption">>,
       <<"FilterBar", "ArrowDown", Mods_none, "SelectNextOption">>,
       <<"FilterBar", "ArrowUp", Mods_none, "SelectPrevOption">>,
       <<"FilterBar", "l", Mods_ctrl, "FocusFilterNext">>,
       <<"FilterBar", "h", Mods_ctrl, "FocusFilterPrev">>,
       <<"FilterBar", "j", Mods_ctrl, "FocusTableHeaders">>,
       <<"FilterBar", "Escape", Mods_none, "BlurInput">>,
       <<"Modal", "Escape", Mods_none, "CloseModal">>,
       <<"Modal", "j", Mods_none, "ModalScrollDown">>,
       <<"Modal", "k", Mods_none, "ModalScrollUp">>,
       <<"Modal", "ArrowDown", Mods_none, "ModalScrollDown">>,
       <<"Modal", "ArrowUp", Mods_none, "ModalScrollUp">>,
       <<"Modal", "Enter", Mods_ctrl, "SaveModal">> >>

\* the layer the bind calls leave: of two bindings of one (context, chord)
\* pair the later one stands
build_default_keymap ==
    LET n == Len(DefaultBindings)
        Pair(i) == <<DefaultBindings[i][1], DefaultBindings[i][2],
                     DefaultBindings[i][3]>>
        Stands(i) == \A k \in (i + 1)..n : Pair(k) # Pair(i)
    IN  { [context |-> DefaultBindings[i][1],
           chord |-> KeyChord_new(DefaultBindings[i][2], DefaultBindings[i][3]),
           command |-> DefaultBindings[i][4]] : i \in {k \in 1..n : Stands(k)} }

\* App.keymap: the stack App::run builds, which nothing pushes to or pops
\* from afterwards
AppKeymap == KeymapStack_push_layer(KeymapStack_new, build_default_keymap)

\* the key-down events the window delivers: every chord the default keymap
\* binds, an upper-case spelling, a key nothing binds and a key that is no
\* chord
KeyEvents ==
    [key : {<<"r">>, <<"f">>, <<"c">>, <<"p">>, <<"t">>, <<"x">>, <<"h">>,
            <<"j">>, <<"k">>, <<"l">>, <<"e", "n", "t", "e", "r">>},
     mods : {Mods_ctrl}]
    \cup [key : {<<"j">>, <<"k">>, <<"g">>, <<"h">>, <<"l">>, <<"z">>,
                 <<"d", "o", "w", "n">>,
                 <<"u", "p">>,
                 <<"l", "e", "f", "t">>,
                 <<"r", "i", "g", "h", "t">>,
                 <<"h", "o", "m", "e">>,
                 <<"e", "n", "d">>,
                 <<"p", "a", "g", "e", "d", "o", "w", "n">>,
                 <<"p", "a", "g", "e", "u", "p">>,
                 <<"e", "s", "c", "a", "p", "e">>,
                 <<"e", "n", "t", "e", "r">>,
                 <<"t", "a", "b">>,
                 <<"s", "p", "a", "c", "e">>,
                 <<"f", "1", "3">>},
          mods : {Mods_none}]
    \cup [key : {<<"g">>, <<"G">>, <<"t", "a", "b">>}, mods : {Mods_shift}]

(***************************************************************************)
(* FocusTarget and the contexts it stands for.                             *)
(***************************************************************************)
FocusTarget == {"App", "Table", "TableHeaders", "SidebarProjects", "SidebarTags"}

FocusTarget_to_context(f) ==
    CASE f = "App" -> "Global"
      [] f = "Table" -> "Table"
      [] f = "TableHeaders" -> "TableHeaders"
      [] f = "SidebarProjects" -> "SidebarProjects"
      [] f = "SidebarTags" -> "SidebarTags"

FocusTarget_is_sidebar(f) == f \in {"SidebarProjects", "SidebarTags"}

(***************************************************************************)
(* TaskTable: pagination, row selection, filter-bar focus, focused header. *)
(* A table is a record; None of an Option<usize> is NoIdx.                 *)
(***************************************************************************)
NoIdx == -1

FilterBarFocus ==
    {"None", "SearchInput", "StatusDropdown", "PriorityDropdown", "DueDropdown"}

\* SortColumn::COLUMN_ORDER
SortColumns == <<"Id", "Description", "Project", "Due", "Priority", "Status">>

Min(a, b) == IF a < b THEN a ELSE b

TaskTable_new ==
    [ filter_bar_focus |-> "None", focused_header |-> "None",
      current_page |-> 1, total_items |-> 0,
      selected_page_idx |-> NoIdx, selected_global_idx |-> NoIdx ]

PaginationState_first_item_index(t) == (t.current_page - 1) * PageSize

PaginationState_last_item_index(t) ==
    Min(PaginationState_first_item_index(t) + PageSize, t.total_items)

\* mutant: the page is turned whatever the number of rows
PaginationState_next_page_unbounded(t) == [t EXCEPT !.current_page = @ + 1]

PaginationState_next_page(t) ==
    IF t.current_page < (t.total_items \div PageSize) + 1
    THEN [t EXCEPT !.current_page = @ + 1] ELSE t

PaginationState_previous_page(t) ==
    IF t.current_page > 1 THEN [t EXCEPT !.current_page = @ - 1] ELSE t

\* n is the length of the filtered task list the reload produces
TaskTable_reload_tasks_from_all(t, n) ==
    [t EXCEPT !.total_items = n, !.current_page = 1,
              !.selected_page_idx = IF n > 0 THEN 0 ELSE NoIdx,
              !.selected_global_idx = IF n > 0 THEN 0 ELSE NoIdx]

TaskTable_select_row(t, page_idx) ==
    [t EXCEPT !.selected_page_idx = page_idx,
              !.selected_global_idx =
                  PaginationState_first_item_index(t) + page_idx]

\* mutant: on the last row the selection wraps to the first row
TaskTable_select_next_row_wrap(t) ==
    IF t.total_items = 0 THEN t
    ELSE IF t.selected_page_idx = NoIdx
    THEN [t EXCEPT !.selected_page_idx = 0,
                   !.selected_global_idx = PaginationState_first_item_index(t)]
    ELSE IF t.selected_global_idx + 1 >= t.total_items
    THEN [t EXCEPT !.current_page = 1, !.selected_page_idx = 0,
                   !.selected_global_idx = 0]
    ELSE LET next_global_idx == t.selected_global_idx + 1
             page_last_idx == PaginationState_last_item_index(t) - 1
         IN  IF next_global_idx > page_last_idx
             THEN [PaginationState_next_page(t) EXCEPT
                       !.selected_page_idx = 0,
                       !.selected_global_idx = next_global_idx]
             ELSE [t EXCEPT !.selected_page_idx = @ + 1,
                            !.selected_global_idx = next_global_idx]

TaskTable_select_next_row(t) ==
    IF t.total_items = 0 THEN t
    ELSE IF t.selected_page_idx = NoIdx
    THEN [t EXCEPT !.selected_page_idx = 0,
                   !.selected_global_idx = PaginationState_first_item_index(t)]
    ELSE IF t.selected_global_idx + 1 >= t.total_items THEN t
    ELSE LET next_global_idx == t.selected_global_idx + 1
             page_last_idx == PaginationState_last_item_index(t) - 1
         IN  IF next_global_idx > page_last_idx
             THEN [PaginationState_next_page(t) EXCEPT
                       !.selected_page_idx = 0,
                       !.selected_global_idx = next_global_idx]
             ELSE [t EXCEPT !.selected_page_idx = @ + 1,
                            !.selected_global_idx = next_global_idx]

\* (len + page_size - 1) / page_size
LastPage(t) == (t.total_items + PageSize - 1) \div PageSize

TaskTable_select_last_row(t) ==
    IF t.total_items = 0 THEN t
    ELSE LET last_global_idx == t.total_items - 1
             paged == [t EXCEPT !.current_page = LastPage(t)]
         IN  [paged EXCEPT
                 !.selected_page_idx =
                     last_global_idx - PaginationState_first_item_index(paged),
                 !.selected_global_idx = last_global_idx]

\* usize::saturating_sub(1)
SaturatingPred(n) == IF n = 0 THEN 0 ELSE n - 1

TaskTable_select_previous_row(t) ==
    IF t.total_items = 0 THEN t
    ELSE IF t.selected_page_idx = NoIdx THEN TaskTable_select_last_row(t)
    ELSE IF t.selected_global_idx = 0 THEN t
    ELSE LET prev_global_idx == t.selected_global_idx - 1
         IN  IF prev_global_idx < PaginationState_first_item_index(t)
             THEN LET paged == PaginationState_previous_page(t)
                      new_page_size ==
                          Min(PaginationState_last_item_index(paged)
                                - PaginationState_first_item_index(paged),
                              PageSize)
                  IN  [paged EXCEPT
                          !.selected_page_idx = new_page_size - 1,
                          !.selected_global_idx = prev_global_idx]
             ELSE [t EXCEPT
                      !.selected_page_idx = SaturatingPred(@),
                      !.selected_global_idx = prev_global_idx]

TaskTable_select_first_row(t) ==
    IF t.total_items = 0 THEN t
    ELSE [t EXCEPT !.current_page = 1, !.selected_page_idx = 0,
                   !.selected_global_idx = 0]

TaskTable_clear_selection(t) ==
    [t EXCEPT !.selected_page_idx = NoIdx, !.selected_global_idx = NoIdx]

TaskTable_go_next_page(t) == PaginationState_next_page(t)

TaskTable_go_previous_page(t) == PaginationState_previous_page(t)

TaskTable_set_filter_bar_focus(t, focus) == [t EXCEPT !.filter_bar_focus = focus]

TaskTable_blur_filter_bar(t) == [t EXCEPT !.filter_bar_focus = "None"]

TaskTable_blur_table_headers(t) == [t EXCEPT !.focused_header = "None"]

TaskTable_focus_filter_next(t) ==
    [t EXCEPT !.filter_bar_focus =
        CASE @ \in {"None", "SearchInput"} -> "StatusDropdown"
          [] @ = "StatusDropdown" -> "PriorityDropdown"
          [] @ = "PriorityDropdown" -> "DueDropdown"
          [] @ = "DueDropdown" -> "SearchInput"]

\* mutant: stepping back from the status dropdown skips the search input
TaskTable_focus_filter_prev_skip_search(t) ==
    [t EXCEPT !.filter_bar_focus =
        CASE @ \in {"None", "SearchInput"} -> "DueDropdown"
          [] @ = "DueDropdown" -> "PriorityDropdown"
          [] @ = "PriorityDropdown" -> "StatusDropdown"
          [] @ = "StatusDropdown" -> "DueDropdown"]

TaskTable_focus_filter_prev(t) ==
    [t EXCEPT !.filter_bar_focus =
        CASE @ \in {"None", "SearchInput"} -> "DueDropdown"
          [] @ = "DueDropdown" -> "PriorityDropdown"
          [] @ = "PriorityDropdown" -> "StatusDropdown"
          [] @ = "StatusDropdown" -> "SearchInput"]

\* position of a column among the headers
ColumnIndex(c) == CHOOSE i \in 1..Len(SortColumns) : SortColumns[i] = c

SortColumn_next(c) == SortColumns[(ColumnIndex(c) % Len(SortColumns)) + 1]

SortColumn_prev(c) ==
    SortColumns[((ColumnIndex(c) + Len(SortColumns) - 2) % Len(SortColumns)) + 1]

TaskTable_header_move_next(t) ==
    [t EXCEPT !.focused_header =
        SortColumn_next(IF @ = "None" THEN "Id" ELSE @)]

TaskTable_header_move_prev(t) ==
    [t EXCEPT !.focused_header =
        SortColumn_prev(IF @ = "None" THEN "Id" ELSE @)]

TaskTable_get_active_filter_context(t) ==
    CASE t.filter_bar_focus = "SearchInput" -> "TextInput"
      [] t.filter_bar_focus \in
            {"StatusDropdown", "PriorityDropdown", "DueDropdown"} -> "FilterBar"
      [] OTHER -> "None"

(***************************************************************************)
(* FilterState: the project and tag filters the sidebar drives.            *)
(***************************************************************************)
NoProject == "None"

FilterState_new == [selected_project |-> NoProject, active_tags |-> {}]

FilterState_select_project(f, project) == [f EXCEPT !.selected_project = project]

FilterState_toggle_tag(f, tag) ==
    [f EXCEPT !.active_tags = IF tag \in @ THEN @ \ {tag} ELSE @ \cup {tag}]

FilterState_clear(f) == [f EXCEPT !.selected_project = NoProject, !.active_tags = {}]

(***************************************************************************)
(* Sidebar: section, selected index, and the project tree's expanded       *)
(* nodes. The projects and tags on show are those of one task database.    *)
(***************************************************************************)
ProjectRoots == <<"work">>

ProjectChildren == [p \in {"work", "work.api"} |->
                        IF p = "work" THEN <<"work.api">> ELSE << >>]

Tags == <<"home", "next">>

RECURSIVE ProjectTree_collect_visible(_, _)
ProjectTree_collect_visible(nodes, expanded) ==
    IF nodes = << >> THEN << >>
    ELSE <<Head(nodes)>>
         \o (IF Head(nodes) \in expanded
             THEN ProjectTree_collect_visible(ProjectChildren[Head(nodes)], expanded)
             ELSE << >>)
         \o ProjectTree_collect_visible(Tail(nodes), expanded)

ProjectTree_iter_visible(expanded) ==
    ProjectTree_collect_visible(ProjectRoots, expanded)

ProjectTree_toggle_expansion(expanded, path) ==
    IF path \in expanded THEN expanded \ {path} ELSE expanded \cup {path}

Sidebar_new ==
    [selected_section |-> "Projects", selected_index |-> 0, expanded |-> {}]

Sidebar_set_section(sb, section) ==
    [sb EXCEPT !.selected_section = section, !.selected_index = 0]

Sidebar_get_items_count(sb) ==
    IF sb.selected_section = "Projects"
    THEN 1 + Len(ProjectTree_iter_visible(sb.expanded))
    ELSE Len(Tags)

Sidebar_select_next(sb) ==
    LET count == Sidebar_get_items_count(sb)
    IN  IF count = 0 THEN sb
        ELSE IF sb.selected_index # NoIdx
        THEN IF sb.selected_index + 1 < count
             THEN [sb EXCEPT !.selected_index = @ + 1] ELSE sb
        ELSE [sb EXCEPT !.selected_index = 0]

Sidebar_select_prev(sb) ==
    IF sb.selected_index # NoIdx
    THEN IF sb.selected_index > 0
         THEN [sb EXCEPT !.selected_index = @ - 1] ELSE sb
    ELSE IF Sidebar_get_items_count(sb) > 0
         THEN [sb EXCEPT !.selected_index = Sidebar_get_items_count(sb) - 1]
         ELSE sb

Sidebar_select_first(sb) == [sb EXCEPT !.selected_index = 0]

Sidebar_select_last(sb) ==
    IF Sidebar_get_items_count(sb) > 0
    THEN [sb EXCEPT !.selected_index = Sidebar_get_items_count(sb) - 1]
    ELSE sb

\* the node expand_selected / collapse_selected look at: visible.get(idx - 1)
SelectedNode(sb) ==
    LET visible == ProjectTree_iter_visible(sb.expanded)
    IN  IF sb.selected_index # NoIdx /\ sb.selected_index > 0
           /\ sb.selected_index <= Len(visible)
        THEN visible[sb.selected_index] ELSE NoProject

Sidebar_expand_selected(sb) ==
    IF sb.selected_section # "Projects" THEN sb
    ELSE LET node == SelectedNode(sb)
         IN  IF node # NoProject /\ ProjectChildren[node] # << >>
                /\ node \notin sb.expanded
             THEN [sb EXCEPT !.expanded = ProjectTree_toggle_expansion(@, node)]
             ELSE sb

Sidebar_collapse_selected(sb) ==
    IF sb.selected_section # "Projects" THEN sb
    ELSE LET node == SelectedNode(sb)
         IN  IF node # NoProject /\ ProjectChildren[node] # << >>
                /\ node \in sb.expanded
             THEN [sb EXCEPT !.expanded = ProjectTree_toggle_expansion(@, node)]
             ELSE sb

(***************************************************************************)
(* TaskDetailModal.                                                        *)
(***************************************************************************)
TaskDetailModal_new == [is_open |-> FALSE]

TaskDetailModal_is_open(m) == m.is_open

TaskDetailModal_close(m) == IF ~m.is_open THEN m ELSE [m EXCEPT !.is_open = FALSE]

(***************************************************************************)
(* The root router. A world w is the App with the components it owns:      *)
(*   focus_target, window_focus (who holds the platform's key focus),      *)
(*   task_table, sidebar, filter_state, task_detail_modal,                 *)
(* and, for the event being handled, the dispatch entry points called so   *)
(* far (calls) and whether filter_state has notified its observers.        *)
(***************************************************************************)
Called(w, who) == [w EXCEPT !.calls = Append(@, who)]

Notified(w) == [w EXCEPT !.filter_notified = TRUE]

NotDispatched == "none"

Consumed(b) == IF b THEN "true" ELSE "false"

\* what the environment answers during one event: the length of the task
\* list a reload yields, whether a sync succeeds, and whether a dropdown
\* command ends in the dropdown's on_select callback
Envs == [tasks : 0..MaxRows, sync_ok : BOOLEAN, dropdown_selects : BOOLEAN]

\* mutant: the search input takes the key focus of the window, the
\* filter-bar focus stays
TaskTable_focus_search_input_window_only(w) ==
    [w EXCEPT !.window_focus = "search_input"]

TaskTable_focus_search_input(w) ==
    [w EXCEPT !.task_table.filter_bar_focus = "SearchInput",
              !.window_focus = "search_input"]

TaskTable_blur_search_input(w) == [w EXCEPT !.window_focus = "filter_bar"]

TaskTable_focus_table_headers(w) ==
    [w EXCEPT !.task_table.focused_header = "Id",
              !.window_focus = "table_headers"]

\* toggle_focused_dropdown, select_next_dropdown_option and
\* select_prev_dropdown_option: they act on the focused dropdown only, whose
\* on_select callback writes the filter and notifies
\* mutant: a selection in a dropdown hands the focus to the table headers
TaskTable_dropdown_command_refocus(w, env) ==
    IF w.task_table.filter_bar_focus
          \in {"StatusDropdown", "PriorityDropdown", "DueDropdown"}
       /\ env.dropdown_selects
    THEN Notified([w EXCEPT !.focus_target = "TableHeaders"]) ELSE w

TaskTable_dropdown_command(w, env) ==
    IF w.task_table.filter_bar_focus
          \in {"StatusDropdown", "PriorityDropdown", "DueDropdown"}
       /\ env.dropdown_selects
    THEN Notified(w) ELSE w

TaskTable_dispatch(w0, command, env) ==
    LET w == Called(w0, "TaskTable")
        t == w.task_table
        On(t2) == [w |-> [w EXCEPT !.task_table = t2], consumed |-> TRUE]
    IN  CASE command = "SelectNextRow" -> On(TaskTable_select_next_row(t))
          [] command = "SelectPrevRow" -> On(TaskTable_select_previous_row(t))
          [] command = "SelectFirstRow" -> On(TaskTable_select_first_row(t))
          [] command = "SelectLastRow" -> On(TaskTable_select_last_row(t))
          [] command = "NextPage" -> On(TaskTable_go_next_page(t))
          [] command = "PrevPage" -> On(TaskTable_go_previous_page(t))
          [] command = "ClearSelection" -> On(TaskTable_clear_selection(t))
          [] command \in {"ToggleDropdown", "SelectNextOption", "SelectPrevOption"} ->
                [w |-> TaskTable_dropdown_command(w, env), consumed |-> TRUE]
          [] command = "BlurInput" -> On(TaskTable_blur_filter_bar(t))
          [] OTHER -> [w |-> w, consumed |-> FALSE]

Sidebar_activate_selected(w) ==
    LET sb == w.sidebar
        idx == sb.selected_index
        visible == ProjectTree_iter_visible(sb.expanded)
    IN  IF idx = NoIdx THEN w
        ELSE IF sb.selected_section = "Projects"
        THEN IF idx = 0
             THEN Notified([w EXCEPT !.filter_state =
                               FilterState_select_project(@, NoProject)])
             ELSE IF idx <= Len(visible)
             THEN Notified([w EXCEPT !.filter_state =
                               FilterState_select_project(@, visible[idx])])
             ELSE w
        ELSE IF idx < Len(Tags)
             THEN Notified([w EXCEPT !.filter_state =
                               FilterState_toggle_tag(@, Tags[idx + 1])])
             ELSE w

Sidebar_dispatch(w0, command) ==
    LET w == Called(w0, "Sidebar")
        sb == w.sidebar
        On(sb2) == [w |-> [w EXCEPT !.sidebar = sb2], consumed |-> TRUE]
    IN  CASE command = "SelectNextRow" -> On(Sidebar_select_next(sb))
          [] command = "SelectPrevRow" -> On(Sidebar_select_prev(sb))
          [] command = "SelectFirstRow" -> On(Sidebar_select_first(sb))
          [] command = "SelectLastRow" -> On(Sidebar_select_last(sb))
          [] command = "OpenSelectedTask" ->
                [w |-> Sidebar_activate_selected(w), consumed |-> TRUE]
          [] command = "ExpandProject" -> On(Sidebar_expand_selected(sb))
          [] command = "CollapseProject" -> On(Sidebar_collapse_selected(sb))
          [] OTHER -> [w |-> w, consumed |-> FALSE]

\* Sidebar::update_projects keeps the expanded paths and update_tags the
\* tags; the table starts over on its first page
App_update_ui_from_tasks(w, n) ==
    [w EXCEPT !.task_table = TaskTable_reload_tasks_from_all(@, n)]

App_reload_tasks(w, env) == App_update_ui_from_tasks(w, env.tasks)

App_handle_sync(w, env) ==
    IF env.sync_ok THEN App_update_ui_from_tasks(w, env.tasks) ELSE w

\* FilterState::clear_project and clear_tags
FilterState_clear_project(f) == [f EXCEPT !.selected_project = NoProject]

FilterState_clear_tags(f) == [f EXCEPT !.active_tags = {}]

\* mutant: the navigation commands always go to the table
App_navigation_target_table(focus) == "TaskTable"

\* the component the navigation arms of App::dispatch hand the command to
App_navigation_target(focus) ==
    IF focus \in {"SidebarProjects", "SidebarTags"} THEN "Sidebar" ELSE "TaskTable"

\* mutant: ExpandProject / CollapseProject go to the sidebar from both
\* sidebar focus targets
App_project_target_any_sidebar(focus) ==
    IF focus \in {"SidebarProjects", "SidebarTags"} THEN "Sidebar" ELSE "TaskTable"

\* the component the ExpandProject | CollapseProject arm hands the command to
App_project_target(focus) ==
    IF focus = "SidebarProjects" THEN "Sidebar" ELSE "TaskTable"

\* mutant: the root hands on the answer of the component
App_routed_answer(r) == r

\* what a routing arm of App::dispatch returns once the component's dispatch
\* has run: the component's answer is dropped, the arm ends in `true`
App_routed(r) == [w |-> r.w, consumed |-> TRUE]

App_dispatch(w0, command, env) ==
    LET w == Called(w0, "App")
        Done(w2) == [w |-> w2, consumed |-> TRUE]
        ToTable == App_routed(TaskTable_dispatch(w, command, env))
        ToSidebar == App_routed(Sidebar_dispatch(w, command))
        Focus(f, section) ==
            Done([w EXCEPT !.focus_target = f,
                           !.sidebar = Sidebar_set_section(@, section)])
    IN  CASE command = "Sync" -> Done(App_handle_sync(w, env))
          [] command = "FocusSearch" -> [w |-> w, consumed |-> FALSE]
          [] command = "FocusTable" ->
                CASE w.focus_target = "Table" -> Focus("SidebarProjects", "Projects")
                  [] w.focus_target = "SidebarProjects" -> Focus("SidebarTags", "Tags")
                  [] OTHER -> Done([w EXCEPT !.focus_target = "Table"])
          [] command = "FocusSidebar" ->
                CASE w.focus_target = "Table" -> Focus("SidebarTags", "Tags")
                  [] w.focus_target = "SidebarTags" -> Focus("SidebarProjects", "Projects")
                  [] OTHER -> Done([w EXCEPT !.focus_target = "Table"])
          [] command = "FocusSidebarProjects" -> Focus("SidebarProjects", "Projects")
          [] command = "FocusSidebarTags" -> Focus("SidebarTags", "Tags")
          [] command \in {"SelectNextRow", "SelectPrevRow", "SelectFirstRow",
                          "SelectLastRow", "OpenSelectedTask"} ->
                IF App_navigation_target(w.focus_target) = "Sidebar"
                THEN ToSidebar ELSE ToTable
          [] command \in {"ExpandProject", "CollapseProject"} ->
                IF App_project_target(w.focus_target) = "Sidebar"
                THEN ToSidebar ELSE ToTable
          [] command \in {"NextPage", "PrevPage", "ClearSelection", "ToggleDropdown",
                          "SelectNextOption", "SelectPrevOption", "BlurInput"} ->
                ToTable
          [] command = "ClearAllFilters" ->
                Done(Notified([w EXCEPT !.filter_state = FilterState_clear(@)]))
          [] command = "ClearProjectFilter" ->
                Done(Notified([w EXCEPT !.filter_state = FilterState_clear_project(@)]))
          [] command = "ClearTagFilter" ->
                Done(Notified([w EXCEPT !.filter_state = FilterState_clear_tags(@)]))
          [] command = "ClearSearchAndDropdowns" -> Done(Notified(w))
          [] command = "HeaderMoveNext" ->
                Done([w EXCEPT !.task_table = TaskTable_header_move_next(@)])
          [] command = "HeaderMovePrev" ->
                Done([w EXCEPT !.task_table = TaskTable_header_move_prev(@)])
          [] command = "HeaderCycleSortOrder" -> Done(w)
          [] OTHER -> [w |-> w, consumed |-> FALSE]

\* mutant: the table is asked for its sub-focus whatever the focus target is
App_active_context_any_focus(w) ==
    IF TaskTable_get_active_filter_context(w.task_table) # "None"
    THEN TaskTable_get_active_filter_context(w.task_table)
    ELSE FocusTarget_to_context(w.focus_target)

App_active_context(w) ==
    IF w.focus_target = "Table"
       /\ TaskTable_get_active_filter_context(w.task_table) # "None"
    THEN TaskTable_get_active_filter_context(w.task_table)
    ELSE FocusTarget_to_context(w.focus_target)

\* the focus transfer FocusFilterNext / FocusFilterPrev end with
FilterFocusTransfer(w, was_on_input) ==
    LET now_on_input == w.task_table.filter_bar_focus = "SearchInput"
        blurred == IF was_on_input THEN TaskTable_blur_search_input(w) ELSE w
    IN  IF now_on_input /\ ~was_on_input
        THEN TaskTable_focus_search_input(blurred) ELSE blurred

\* the head of handle_key_down: the chord of the event, the active context
\* and the command the keymap resolves them to
App_resolve_event(w, event) ==
    LET chord == KeyChord_from_gpui(event)
    IN  IF chord = NoChord
        THEN [chord |-> NoChord, context |-> "none", command |-> NoCmd]
        ELSE [chord |-> chord, context |-> App_active_context(w),
              command |-> KeymapStack_resolve(AppKeymap, App_active_context(w), chord)]

\* mutant: a key that resolves to nothing sends the focus back to the table
App_unresolved_refocus(w) == [w EXCEPT !.focus_target = "Table"]

\* `if let Some(chord)` and `if let Some(command)` have no else branch
App_unresolved(w) == w

\* the Command::FocusSearch arm of handle_key_down
App_key_focus_search(w) ==
    LET focused == [w EXCEPT !.focus_target = "Table"]
        unheaded ==
            IF w.focus_target = "TableHeaders"
            THEN [focused EXCEPT !.task_table = TaskTable_blur_table_headers(@)]
            ELSE focused
    IN  TaskTable_focus_search_input(unheaded)

\* mutant: the headers take the key focus, the focus target stays
App_key_focus_table_headers_stay(w) ==
    LET blurred == TaskTable_blur_search_input(w)
        unbarred == [blurred EXCEPT !.task_table =
                        TaskTable_set_filter_bar_focus(@, "None")]
    IN  TaskTable_focus_table_headers(unbarred)

\* the Command::FocusTableHeaders arm of handle_key_down
App_key_focus_table_headers(w) ==
    LET focused == [w EXCEPT !.focus_target = "TableHeaders"]
        blurred == TaskTable_blur_search_input(focused)
        unbarred == [blurred EXCEPT !.task_table =
                        TaskTable_set_filter_bar_focus(@, "None")]
    IN  TaskTable_focus_table_headers(unbarred)

\* mutant: the sidebar is re-anchored to its Projects section as well
App_key_focus_table_reanchor(w, context) ==
    LET focused == [w EXCEPT !.focus_target = "Table",
                             !.sidebar = Sidebar_set_section(@, "Projects")]
    IN  CASE context \in {"TextInput", "FilterBar"} ->
                [TaskTable_blur_search_input(focused) EXCEPT
                    !.task_table = TaskTable_set_filter_bar_focus(@, "None")]
          [] context = "TableHeaders" ->
                [focused EXCEPT !.task_table = TaskTable_blur_table_headers(@)]
          [] OTHER -> focused

\* the Command::FocusTable arm of handle_key_down
App_key_focus_table(w, context) ==
    LET focused == [w EXCEPT !.focus_target = "Table"]
    IN  CASE context \in {"TextInput", "FilterBar"} ->
                [TaskTable_blur_search_input(focused) EXCEPT
                    !.task_table = TaskTable_set_filter_bar_focus(@, "None")]
          [] context = "TableHeaders" ->
                [focused EXCEPT !.task_table = TaskTable_blur_table_headers(@)]
          [] OTHER -> focused

\* the match of handle_key_down on the resolved command
App_handle_command(w, resolved, env) ==
    LET context == resolved.context
        command == resolved.command
        Direct(w2) == [w |-> w2, command |-> command, context |-> context,
                       consumed |-> NotDispatched]
        was_on_input == w.task_table.filter_bar_focus = "SearchInput"
    IN  CASE command = NoCmd -> Direct(App_unresolved(w))
          [] command = "FocusSearch" -> Direct(App_key_focus_search(w))
          [] command = "FocusTableHeaders" -> Direct(App_key_focus_table_headers(w))
          [] command = "FocusTable" -> Direct(App_key_focus_table(w, context))
          [] command = "FocusFilterNext" ->
                Direct(FilterFocusTransfer(
                    [w EXCEPT !.task_table = TaskTable_focus_filter_next(@)],
                    was_on_input))
          [] command = "FocusFilterPrev" ->
                Direct(FilterFocusTransfer(
                    [w EXCEPT !.task_table = TaskTable_focus_filter_prev(@)],
                    was_on_input))
          [] OTHER ->
                LET r == App_dispatch(w, command, env)
                IN  [w |-> r.w, command |-> command, context |-> context,
                     consumed |-> Consumed(r.consumed)]

App_handle_key_down(w, event, env) ==
    App_handle_command(w, App_resolve_event(w, event), env)

\* the effects queued during the event run once its handler has returned:
\* App observes filter_state and reloads on every notification
FlushEffects(w, env) ==
    IF w.filter_notified THEN App_reload_tasks(w, env) ELSE w

(***************************************************************************)
(* State.                                                                  *)
(***************************************************************************)
VARIABLES
    layer,      \* a KeymapLayer under construction
    bound,      \* history: the (context, chord) pairs bind was called with
    binds,      \* history: number of bind calls on `layer`
    layers,     \* KeymapStack.layers
    snap,       \* history: the stack's resolution before the last push
    ret,        \* history: the last call and what it returned
    focus_target,       \* App.focus_target
    window_focus,       \* the focus handle that holds the window's key focus
    task_table,         \* App.task_table
    sidebar,            \* App.sidebar
    filter_state,       \* App.filter_state
    task_detail_modal,  \* the task detail modal
    last,       \* history: the last event and how the router handled it
    events,     \* history: number of events handled so far
    call        \* history: the last call of a pure function and what it returned

kmVars == <<layer, bound, binds, layers, snap, ret>>

appVars == <<focus_target, window_focus, task_table, sidebar, filter_state,
             task_detail_modal, last, events>>

vars == <<layer, bound, binds, layers, snap, ret, focus_target, window_focus,
          task_table, sidebar, filter_state, task_detail_modal, last, events,
          call>>

NoRet == [op |-> "none"]

NoSnap == [st |-> "none"]

NoCall == [op |-> "none"]

\* the contexts, chords and commands the keymap operations are driven with
KmContexts == {"Global", "Table", "SidebarProjects"}

KmChords == {KeyChord_new("j", Mods_none), KeyChord_new("r", Mods_ctrl)}

KmCommands == {"SelectNextRow", "SelectPrevRow"}

StackChords == {KeyChord_new("j", Mods_none)}

\* every layer that at most n bind calls build
RECURSIVE LayersBuilt(_)
LayersBuilt(n) ==
    IF n = 0 THEN {KeymapLayer_new}
    ELSE LET prev == LayersBuilt(n - 1)
         IN  prev \cup
             {KeymapLayer_bind(l, c, k, cmd) :
                 l \in prev, c \in KmContexts, k \in StackChords,
                 cmd \in KmCommands}

ResolveTable(ls) ==
    [q \in KmContexts \X StackChords |-> KeymapStack_resolve(ls, q[1], q[2])]

\* mutant: the App is built with its focus target still on App
AppNew_unmounted(n) ==
    /\ focus_target = "App"
    /\ window_focus = "app"
    /\ task_table = TaskTable_reload_tasks_from_all(TaskTable_new, n)
    /\ sidebar = Sidebar_new
    /\ filter_state = FilterState_new
    /\ task_detail_modal = TaskDetailModal_new
    /\ last = [kind |-> "init", command |-> NoCmd, context |-> "none",
               focus |-> "none", modal |-> FALSE, calls |-> << >>,
               consumed |-> NotDispatched, changed |-> {}]
    /\ events = 0

\* the App as App::run builds it, its table loaded with n tasks
AppNew(n) ==
    /\ focus_target = "Table"
    /\ window_focus = "app"
    /\ task_table = TaskTable_reload_tasks_from_all(TaskTable_new, n)
    /\ sidebar = Sidebar_new
    /\ filter_state = FilterState_new
    /\ task_detail_modal = TaskDetailModal_new
    /\ last = [kind |-> "init", command |-> NoCmd, context |-> "none",
               focus |-> "none", modal |-> FALSE, calls |-> << >>,
               consumed |-> NotDispatched, changed |-> {}]
    /\ events = 0

InitKeymap ==
    /\ layer = KeymapLayer_new
    /\ bound = {}
    /\ binds = 0
    /\ layers = KeymapStack_new
    /\ snap = NoSnap
    /\ ret = NoRet
    /\ call = NoCall
    /\ AppNew(0)

(***************************************************************************)
(* One KeymapLayer: new, bind, resolve.                                    *)
(***************************************************************************)
LayerNew ==
    /\ layer' = KeymapLayer_new
    /\ bound' = {}
    /\ binds' = 0
    /\ ret' = [op |-> "new"]
    /\ UNCHANGED <<layers, snap>>
    /\ UNCHANGED <<appVars, call>>

LayerBind(context, chord, command) ==
    /\ binds < MaxBinds
    /\ layer' = KeymapLayer_bind(layer, context, chord, command)
    /\ bound' = bound \cup {<<context, chord>>}
    /\ binds' = binds + 1
    /\ ret' = [op |-> "bind", context |-> context, chord |-> chord,
               command |-> command, before |-> layer]
    /\ UNCHANGED <<layers, snap>>
    /\ UNCHANGED <<appVars, call>>

LayerResolve(context, chord) ==
    /\ ret' = [op |-> "layer_resolve", context |-> context, chord |-> chord,
               value |-> KeymapLayer_resolve(layer, context, chord)]
    /\ UNCHANGED <<layer, bound, binds, layers, snap>>
    /\ UNCHANGED <<appVars, call>>

NextLayer ==
    \/ LayerNew
    \/ \E c \in KmContexts, k \in KmChords, cmd \in KmCommands :
           LayerBind(c, k, cmd)
    \/ \E c \in KmContexts, k \in KmChords : LayerResolve(c, k)

SpecLayer == InitKeymap /\ [][NextLayer]_vars

(***************************************************************************)
(* The KeymapStack: push_layer, pop_layer, resolve.                        *)
(***************************************************************************)
PushLayer(l) ==
    /\ Len(layers) < MaxLayers
    /\ layers' = KeymapStack_push_layer(layers, l)
    /\ snap' = [st |-> "pushed", table |-> ResolveTable(layers), layer |-> l]
    /\ ret' = [op |-> "push"]
    /\ UNCHANGED <<layer, bound, binds>>
    /\ UNCHANGED <<appVars, call>>

PopLayer ==
    LET r == KeymapStack_pop_layer(layers)
    IN  /\ layers' = r.layers
        /\ ret' = [op |-> "pop", value |-> r.value, depth |-> Len(layers)]
        /\ snap' = IF snap.st = "pushed"
                   THEN [snap EXCEPT !.st = "popped"]
                   ELSE NoSnap
        /\ UNCHANGED <<layer, bound, binds>>
        /\ UNCHANGED <<appVars, call>>
    /\ UNCHANGED <<appVars, call>>

StackResolve(context, chord) ==
    /\ ret' = [op |-> "resolve", context |-> context, chord |-> chord,
               value |-> KeymapStack_resolve(layers, context, chord),
               before |-> layers]
    /\ UNCHANGED <<layer, bound, binds, layers, snap>>
    /\ UNCHANGED <<appVars, call>>

NextStack ==
    \/ \E l \in LayersBuilt(MaxBinds) : PushLayer(l)
    \/ PopLayer
    \/ \E c \in KmContexts, k \in StackChords : StackResolve(c, k)

SpecStack == InitKeymap /\ [][NextStack]_vars

(***************************************************************************)
(* The running App: key presses, pointer clicks, sync requests, and the    *)
(* task detail modal opening and closing.                                  *)
(***************************************************************************)
World ==
    [focus_target |-> focus_target, window_focus |-> window_focus,
     task_table |-> task_table, sidebar |-> sidebar,
     filter_state |-> filter_state, task_detail_modal |-> task_detail_modal,
     calls |-> << >>, filter_notified |-> FALSE]

\* the fields of the App and its components that differ between two worlds
Changed(w, w2) ==
    {f \in {"focus_target", "window_focus", "filter_state", "task_detail_modal"} :
        w[f] # w2[f]}
    \cup {f \in DOMAIN w.task_table : w.task_table[f] # w2.task_table[f]}
    \cup {f \in DOMAIN w.sidebar : w.sidebar[f] # w2.sidebar[f]}

\* one event: the world it leaves, and what the history keeps of it
Apply(kind, resolved, world, consumed) ==
    /\ events < MaxEvents
    /\ events' = events + 1
    /\ \E w \in {world} :
          /\ focus_target' = w.focus_target
          /\ window_focus' = w.window_focus
          /\ task_table' = w.task_table
          /\ sidebar' = w.sidebar
          /\ filter_state' = w.filter_state
          /\ task_detail_modal' = w.task_detail_modal
          /\ last' = [kind |-> kind, command |-> resolved.command,
                      context |-> resolved.context, focus |-> focus_target,
                      modal |-> task_detail_modal.is_open, calls |-> w.calls,
                      consumed |-> consumed, changed |-> Changed(World, w)]
    /\ UNCHANGED <<kmVars, call>>

\* an event that is no key press resolves nothing
Unresolved == [chord |-> NoChord, context |-> "none", command |-> NoCmd]

Env0 == [tasks |-> 0, sync_ok |-> TRUE, dropdown_selects |-> FALSE]

\* the answers of the environment that the handling of a command consults
EnvsFor(command) ==
    CASE command = "Sync" ->
            {e \in Envs : ~e.dropdown_selects /\ (e.sync_ok \/ e.tasks = 0)}
      [] command \in {"ToggleDropdown", "SelectNextOption", "SelectPrevOption"} ->
            {e \in Envs : e.sync_ok /\ (e.dropdown_selects \/ e.tasks = 0)}
      [] command \in {"OpenSelectedTask", "ClearAllFilters", "ClearProjectFilter",
                      "ClearTagFilter", "ClearSearchAndDropdowns"} ->
            {e \in Envs : e.sync_ok /\ ~e.dropdown_selects}
      [] OTHER -> {Env0}

KeyDown(event) ==
    \E resolved \in {App_resolve_event(World, event)} :
      \E env \in EnvsFor(resolved.command) :
        \E r \in {App_handle_command(World, resolved, env)} :
          Apply("key", resolved, FlushEffects(r.w, env), r.consumed)

\* mutant: the click moves the focus target and leaves the section
App_sidebar_mouse_down_keep_section(w) ==
    IF ~FocusTarget_is_sidebar(w.focus_target)
    THEN [w EXCEPT !.focus_target = "SidebarProjects"]
    ELSE w

\* mutant: the click re-anchors the sidebar whatever the focus target was
App_sidebar_mouse_down_always(w) ==
    [w EXCEPT !.focus_target = "SidebarProjects",
              !.sidebar = Sidebar_set_section(@, "Projects")]

App_sidebar_mouse_down(w) ==
    IF ~FocusTarget_is_sidebar(w.focus_target)
    THEN [w EXCEPT !.focus_target = "SidebarProjects",
                   !.sidebar = Sidebar_set_section(@, "Projects")]
    ELSE w

App_table_mouse_down(w) ==
    IF w.focus_target # "Table" THEN [w EXCEPT !.focus_target = "Table"] ELSE w

SidebarMouseDown ==
    Apply("sidebar_mouse_down", Unresolved, App_sidebar_mouse_down(World),
          NotDispatched)

TableMouseDown ==
    Apply("table_mouse_down", Unresolved, App_table_mouse_down(World),
          NotDispatched)

\* a click on the idx-th row of the page on show, which the table's
\* container then sees as well
RowClick(idx) ==
    /\ idx < PaginationState_last_item_index(task_table)
               - PaginationState_first_item_index(task_table)
    /\ Apply("row_click", Unresolved,
             App_table_mouse_down(
                 [World EXCEPT !.task_table = TaskTable_select_row(@, idx)]),
             NotDispatched)

\* the status bar's SyncRequested event
SyncRequested(env) ==
    Apply("sync_requested", Unresolved, App_handle_sync(World, env), NotDispatched)

\* TaskDetailModal::open_loading / open_with_detail / open_with_error, with
\* or without a window to move the key focus in
TaskDetailModal_open(w, with_window) ==
    [w EXCEPT !.task_detail_modal.is_open = TRUE,
              !.window_focus = IF with_window THEN "modal" ELSE @]

OpenTaskDetail(with_window) ==
    Apply("open_task_detail", Unresolved,
          TaskDetailModal_open(World, with_window), NotDispatched)

\* the modal's close button or backdrop
CloseTaskDetail ==
    /\ task_detail_modal.is_open
    /\ Apply("close_task_detail", Unresolved,
             [World EXCEPT !.task_detail_modal = TaskDetailModal_close(@)],
             NotDispatched)

Init ==
    /\ layer = KeymapLayer_new
    /\ bound = {}
    /\ binds = 0
    /\ layers = AppKeymap
    /\ snap = NoSnap
    /\ ret = NoRet
    /\ call = NoCall
    /\ \E n \in 0..MaxRows : AppNew(n)

Next ==
    \/ \E event \in KeyEvents : KeyDown(event)
    \/ SidebarMouseDown
    \/ TableMouseDown
    \/ \E idx \in 0..(PageSize - 1) : RowClick(idx)
    \/ \E env \in {e \in Envs : ~e.dropdown_selects /\ (e.sync_ok \/ e.tasks = 0)} :
           SyncRequested(env)
    \/ \E with_window \in BOOLEAN : OpenTaskDetail(with_window)
    \/ CloseTaskDetail

Spec == Init /\ [][Next]_vars

(***************************************************************************)
(* App::dispatch as an entry point of its own: the CommandDispatcher trait *)
(* makes it callable with any command, whatever the keymap binds.          *)
(***************************************************************************)
DispatchCommands ==
    {"SelectNextRow", "SelectPrevRow", "SelectFirstRow", "SelectLastRow",
     "OpenSelectedTask", "ExpandProject", "CollapseProject"}

Dispatch(command) ==
    \E env \in EnvsFor(command) :
      \E r \in {App_dispatch(World, command, env)} :
        Apply("dispatch",
              [chord |-> NoChord, context |-> "none", command |-> command],
              FlushEffects(r.w, env), Consumed(r.consumed))

\* the key presses that move the focus target, and j
RoutingKeyEvents ==
    [key : {<<"f">>, <<"h">>, <<"j">>, <<"k">>, <<"l">>}, mods : {Mods_ctrl}]
    \cup [key : {<<"j">>}, mods : {Mods_none}]

NextDispatch ==
    \/ \E command \in DispatchCommands : Dispatch(command)
    \/ \E event \in RoutingKeyEvents : KeyDown(event)
    \/ SidebarMouseDown
    \/ TableMouseDown

SpecDispatch == Init /\ [][NextDispatch]_vars

(***************************************************************************)
(* The chord and command vocabulary as pure functions: each action calls   *)
(* one of them on an input and keeps the call and its result.              *)
(***************************************************************************)
\* the raw key strings the calls are made with: canonical names and aliases
\* in several spellings, single characters, and strings that name nothing
RawKeyStrings ==
    {<<"e", "n", "t", "e", "r">>, <<"R", "e", "t", "u", "r", "n">>,
     <<"E", "S", "C">>, <<"e", "s", "c", "a", "p", "e">>,
     <<"b", "a", "c", "k", "s", "p", "a", "c", "e">>, <<"D", "e", "l">>,
     <<"d", "e", "l", "e", "t", "e">>, <<"t", "a", "b">>,
     <<"S", "p", "a", "c", "e">>, <<"u", "p">>,
     <<"A", "r", "r", "o", "w", "U", "p">>, <<"d", "o", "w", "n">>,
     <<"a", "r", "r", "o", "w", "d", "o", "w", "n">>,
     <<"L", "e", "f", "t">>,
     <<"a", "r", "r", "o", "w", "l", "e", "f", "t">>,
     <<"r", "i", "g", "h", "t">>,
     <<"A", "r", "r", "o", "w", "R", "i", "g", "h", "t">>,
     <<"p", "a", "g", "e", "u", "p">>,
     <<"P", "a", "g", "e", "D", "o", "w", "n">>, <<"h", "o", "m", "e">>,
     <<"E", "N", "D">>, <<"f", "1">>, <<"F", "5">>, <<"f", "1", "2">>,
     <<"f", "1", "3">>, <<"j">>, <<"G">>, <<" ">>, <<"+">>, <<"a", "b">>,
     <<"e", "n", "t", "r">>, << >>, <<"e_acute">>, <<"E_acute">>}

AllMods == SUBSET {"ctrl", "alt", "shift", "platform"}

\* the keys chords are built from: every named key and some letters
ChordKeys == NamedKeys \cup {"a", "j", "z", "G", "Q"}

\* the tokens put in front of a key in the strings parse is called with
ModTokens ==
    {<<"c", "t", "r", "l">>, <<"C", "t", "r", "l">>, <<"a", "l", "t">>,
     <<"S", "H", "I", "F", "T">>, <<"c", "m", "d">>,
     <<"s", "u", "p", "e", "r">>,
     <<"p", "l", "a", "t", "f", "o", "r", "m">>,
     <<"h", "y", "p", "e", "r">>, <<"c", "t", "l">>, << >>}

\* the strings KeyChord::parse is called with: a key with no, one or two
\* tokens in front
ParseStrings ==
    {k : k \in RawKeyStrings}
    \cup {str_join(<<m, k>>, "+") : m \in ModTokens, k \in RawKeyStrings}
    \cup {str_join(<<m1, m2, k>>, "+") :
             m1 \in ModTokens, m2 \in ModTokens,
             k \in {<<"f">>, <<"E", "s", "c">>, <<"n", "o", "k", "e", "y">>}}

\* one call per behaviour: the functions keep no state between calls
Returns(record) ==
    /\ call = NoCall
    /\ call' = record
    /\ UNCHANGED <<kmVars, appVars>>

CallKeyFromStr(s) ==
    Returns([op |-> "Key::from_str", s |-> s, value |-> Key_from_str(s)])

CallFromGpui(s, mods) ==
    Returns([op |-> "KeyChord::from_gpui", s |-> s, mods |-> mods,
             value |-> KeyChord_from_gpui([key |-> s, mods |-> mods])])

CallParse(s) ==
    Returns([op |-> "KeyChord::parse", s |-> s, value |-> KeyChord_parse(s)])

CallToString(chord) ==
    Returns([op |-> "KeyChord::to_string", chord |-> chord,
             value |-> KeyChord_to_string(chord)])

\* the arms of Command::from_str: the string matched and the variant made
Command_from_str_arms ==
    {<<"SelectNextRow", "SelectNextRow">>,
     <<"SelectPrevRow", "SelectPrevRow">>,
     <<"SelectFirstRow", "SelectFirstRow">>,
     <<"SelectLastRow", "SelectLastRow">>,
     <<"NextPage", "NextPage">>,
     <<"PrevPage", "PrevPage">>,
     <<"ClearSelection", "ClearSelection">>,
     <<"OpenSelectedTask", "OpenSelectedTask">>,
     <<"Sync", "Sync">>,
     <<"FocusSearch", "FocusSearch">>,
     <<"FocusTable", "FocusTable">>,
     <<"FocusTableHeaders", "FocusTableHeaders">>,
     <<"FocusSidebar", "FocusSidebar">>,
     <<"FocusSidebarProjects", "FocusSidebarProjects">>,
     <<"FocusSidebarTags", "FocusSidebarTags">>,
     <<"BlurInput", "BlurInput">>,
     <<"CloseModal", "CloseModal">>,
     <<"SaveModal", "SaveModal">>,
     <<"ApplySearch", "ApplySearch">>,
     <<"ClearFilters", "ClearFilters">>,
     <<"ClearAllFilters", "ClearAllFilters">>,
     <<"ClearProjectFilter", "ClearProjectFilter">>,
     <<"ClearTagFilter", "ClearTagFilter">>,
     <<"ClearSearchAndDropdowns", "ClearSearchAndDropdowns">>,
     <<"FocusFilterNext", "FocusFilterNext">>,
     <<"FocusFilterPrev", "FocusFilterPrev">>,
     <<"ToggleDropdown", "ToggleDropdown">>,
     <<"SelectNextOption", "SelectNextOption">>,
     <<"SelectPrevOption", "SelectPrevOption">>,
     <<"ExpandProject", "ExpandProject">>,
     <<"CollapseProject", "CollapseProject">>,
     <<"HeaderMoveNext", "HeaderMoveNext">>,
     <<"HeaderMovePrev", "HeaderMovePrev">>,
     <<"HeaderCycleSortOrder", "HeaderCycleSortOrder">>}

\* the arms of Command::as_str: the variant matched and its string
Command_as_str_arms ==
    {<<"SelectNextRow", "SelectNextRow">>,
     <<"SelectPrevRow", "SelectPrevRow">>,
     <<"SelectFirstRow", "SelectFirstRow">>,
     <<"SelectLastRow", "SelectLastRow">>,
     <<"NextPage", "NextPage">>,
     <<"PrevPage", "PrevPage">>,
     <<"ClearSelection", "ClearSelection">>,
     <<"OpenSelectedTask", "OpenSelectedTask">>,
     <<"Sync", "Sync">>,
     <<"FocusSearch", "FocusSearch">>,
     <<"FocusTable", "FocusTable">>,
     <<"FocusTableHeaders", "FocusTableHeaders">>,
     <<"FocusSidebar", "FocusSidebar">>,
     <<"FocusSidebarProjects", "FocusSidebarProjects">>,
     <<"FocusSidebarTags", "FocusSidebarTags">>,
     <<"BlurInput", "BlurInput">>,
     <<"CloseModal", "CloseModal">>,
     <<"SaveModal", "SaveModal">>,
     <<"ApplySearch", "ApplySearch">>,
     <<"ClearFilters", "ClearFilters">>,
     <<"ClearAllFilters", "ClearAllFilters">>,
     <<"ClearProjectFilter", "ClearProjectFilter">>,
     <<"ClearTagFilter", "ClearTagFilter">>,
     <<"ClearSearchAndDropdowns", "ClearSearchAndDropdowns">>,
     <<"FocusFilterNext", "FocusFilterNext">>,
     <<"FocusFilterPrev", "FocusFilterPrev">>,
     <<"ToggleDropdown", "ToggleDropdown">>,
     <<"SelectNextOption", "SelectNextOption">>,
     <<"SelectPrevOption", "SelectPrevOption">>,
     <<"ExpandProject", "ExpandProject">>,
     <<"CollapseProject", "CollapseProject">>,
     <<"HeaderMoveNext", "HeaderMoveNext">>,
     <<"HeaderMovePrev", "HeaderMovePrev">>,
     <<"HeaderCycleSortOrder", "HeaderCycleSortOrder">>}

NoStr == "nostr"

\* Command::as_str; a command the match has no arm for has no identifier
Command_as_str(c) ==
    IF \E arm \in Command_as_str_arms : arm[1] = c
    THEN (CHOOSE arm \in Command_as_str_arms : arm[1] = c)[2]
    ELSE NoStr

Command_from_str(s) ==
    IF \E arm \in Command_from_str_arms : arm[1] = s
    THEN (CHOOSE arm \in Command_from_str_arms : arm[1] = s)[2]
    ELSE NoCmd

\* the strings Command::from_str is called with
CommandStrings == Command \cup {"selectnextrow", "Select", NoStr}

CallAsStr(c) ==
    Returns([op |-> "Command::as_str", c |-> c, value |-> Command_as_str(c)])

CallCommandFromStr(s) ==
    Returns([op |-> "Command::from_str", s |-> s, value |-> Command_from_str(s)])

(***************************************************************************)
(* ProjectTree as build_from_projects makes it: nodes in creation order,   *)
(* indices counted from 1, a path a sequence of characters.                *)
(***************************************************************************)
\* most projects in one build
MaxProjects == 2

NoNode == 0

\* the byte of a character, as str's Ord compares it
char_rank(c) ==
    IF c = "." THEN 46
    ELSE IF \E i \in DOMAIN UpperCase : UpperCase[i] = c
    THEN 64 + (CHOOSE i \in DOMAIN UpperCase : UpperCase[i] = c)
    ELSE 96 + (CHOOSE i \in DOMAIN LowerCase : LowerCase[i] = c)

\* str's cmp(a, b) = Less
str_less(a, b) ==
    \/ Len(a) < Len(b) /\ SubSeq(b, 1, Len(a)) = a
    \/ \E i \in DOMAIN a \cap DOMAIN b :
          /\ SubSeq(a, 1, i - 1) = SubSeq(b, 1, i - 1)
          /\ char_rank(a[i]) < char_rank(b[i])

\* a stable sort of indices by the lower-cased name of their node
RECURSIVE sort_by_name(_, _)
sort_by_name(nodes, indices) ==
    IF indices = << >> THEN << >>
    ELSE LET sorted == sort_by_name(nodes, SubSeq(indices, 1, Len(indices) - 1))
             x == indices[Len(indices)]
             name(i) == to_lowercase(nodes[i].name)
             keep == {k \in DOMAIN sorted : ~str_less(name(x), name(sorted[k]))}
             at == Cardinality(keep)
         IN  SubSeq(sorted, 1, at) \o <<x>> \o SubSeq(sorted, at + 1, Len(sorted))

\* a HashMap is the set of its <<key, value>> entries
HashMap_new == {}

HashMap_contains_key(map, key) == \E e \in map : e[1] = key

HashMap_get(map, key) == (CHOOSE e \in map : e[1] = key)[2]

HashMap_insert(map, key, value) ==
    {e \in map : e[1] # key} \cup {<<key, value>>}

ProjectTree_new ==
    [nodes |-> << >>, root_indices |-> << >>,
     path_to_index |-> HashMap_new, expanded_paths |-> HashMap_new]

\* the loop of insert_project from segment `level` on
RECURSIVE ProjectTree_insert_segments(_, _, _, _, _, _)
ProjectTree_insert_segments(t, segments, level, current_path, parent_idx, task_count) ==
    IF level > Len(segments) THEN t
    ELSE LET segment == segments[level]
             path == IF current_path = << >> THEN segment
                     ELSE current_path \o <<".">> \o segment
             known == HashMap_contains_key(t.path_to_index, path)
             new_idx == Len(t.nodes) + 1
             node_idx == IF known THEN HashMap_get(t.path_to_index, path) ELSE new_idx
             node == [name |-> segment, full_path |-> path, task_count |-> 0,
                      direct_task_count |-> 0, level |-> level - 1,
                      children_indices |-> << >>,
                      is_expanded |-> IF HashMap_contains_key(t.expanded_paths, path)
                                      THEN HashMap_get(t.expanded_paths, path)
                                      ELSE FALSE]
             pushed == Append(t.nodes, node)
             created ==
                 IF known THEN t
                 ELSE [t EXCEPT
                        !.nodes = IF parent_idx # NoNode
                                  THEN [pushed EXCEPT ![parent_idx].children_indices =
                                                          Append(@, new_idx)]
                                  ELSE pushed,
                        !.path_to_index = HashMap_insert(@, path, new_idx),
                        !.root_indices = IF parent_idx # NoNode THEN @
                                         ELSE Append(@, new_idx)]
             counted ==
                 [created EXCEPT
                    !.nodes[node_idx].task_count = @ + task_count,
                    !.nodes[node_idx].direct_task_count =
                        IF level = Len(segments) THEN @ + task_count ELSE @]
         IN  ProjectTree_insert_segments(counted, segments, level + 1, path,
                                         node_idx, task_count)

ProjectTree_insert_project(t, segments, task_count) ==
    IF segments = << >> THEN t
    ELSE ProjectTree_insert_segments(t, segments, 1, << >>, NoNode, task_count)

\* the first loop of build_from_projects
RECURSIVE ProjectTree_insert_all(_, _)
ProjectTree_insert_all(t, projects) ==
    IF projects = << >> THEN t
    ELSE LET project == Head(projects)
             next == IF project.path = << >> THEN t
                     ELSE ProjectTree_insert_project(
                              t, str_split(project.path, "."), project.count)
         IN  ProjectTree_insert_all(next, Tail(projects))

ProjectTree_build_from_projects(t, projects) ==
    LET cleared == [t EXCEPT !.nodes = << >>, !.root_indices = << >>,
                             !.path_to_index = HashMap_new]
        inserted == ProjectTree_insert_all(cleared, projects)
        nodes == inserted.nodes
    IN  [inserted EXCEPT
           !.root_indices = sort_by_name(nodes, @),
           !.nodes = [i \in DOMAIN nodes |->
                         [nodes[i] EXCEPT
                            !.children_indices = sort_by_name(nodes, @),
                            !.is_expanded =
                                IF HashMap_contains_key(inserted.expanded_paths,
                                                        nodes[i].full_path)
                                THEN HashMap_get(inserted.expanded_paths,
                                                 nodes[i].full_path)
                                ELSE @]]]

\* mutant: the node flipped is the first one of the tree
ProjectNodes_toggle_expansion_first(t, full_path) ==
    IF HashMap_contains_key(t.path_to_index, full_path)
    THEN LET new_state == ~t.nodes[1].is_expanded
         IN  [t EXCEPT !.nodes[1].is_expanded = new_state,
                       !.expanded_paths = HashMap_insert(@, full_path, new_state)]
    ELSE t

\* ProjectTree::toggle_expansion on the tree of nodes
ProjectNodes_toggle_expansion(t, full_path) ==
    IF HashMap_contains_key(t.path_to_index, full_path)
    THEN LET idx == HashMap_get(t.path_to_index, full_path)
             new_state == ~t.nodes[idx].is_expanded
         IN  [t EXCEPT !.nodes[idx].is_expanded = new_state,
                       !.expanded_paths = HashMap_insert(@, full_path, new_state)]
    ELSE t

\* project paths given to build_from_projects and toggle_expansion
TreePaths ==
    {<<"a">>, <<"b">>, <<"A">>, <<"a", ".", "b">>, <<"a", ".", "a">>,
     <<"b", ".", "a">>, <<"a", ".", "b", ".", "a">>, << >>,
     <<".", "a">>, <<"a", ".">>, <<".">>, <<"a", ".", ".", "b">>}

TaskCounts == {1, 2}

SeqsUpTo(S, n) == UNION {[1..k -> S] : k \in 0..n}

ProjectLists ==
    SeqsUpTo([path : TreePaths, count : TaskCounts], MaxProjects)

CallBuild(projects) ==
    Returns([op |-> "ProjectTree::build_from_projects", projects |-> projects,
             tree |-> ProjectTree_build_from_projects(ProjectTree_new, projects)])

\* a tree is built and toggle_expansion is called on it twice, with a
\* first path and then with full_path
CallToggle(projects, first, full_path) ==
    LET built == ProjectTree_build_from_projects(ProjectTree_new, projects)
        before == ProjectNodes_toggle_expansion(built, first)
    IN  Returns([op |-> "ProjectTree::toggle_expansion", built |-> built,
                 before |-> before, full_path |-> full_path,
                 value |-> ProjectNodes_toggle_expansion(before, full_path)])

\* a table whose filter bar focus is x, and the focus that focus_filter_next
\* and focus_filter_prev leave on it, alone, one after the other and four
\* times over
CallFilterFocus(x) ==
    LET t == [TaskTable_new EXCEPT !.filter_bar_focus = x]
        next == TaskTable_focus_filter_next(t)
        prev == TaskTable_focus_filter_prev(t)
    IN  Returns([op |-> "TaskTable::focus_filter", focus |-> x,
                 next |-> next.filter_bar_focus,
                 prev |-> prev.filter_bar_focus,
                 prev_next |-> TaskTable_focus_filter_prev(next).filter_bar_focus,
                 next_prev |-> TaskTable_focus_filter_next(prev).filter_bar_focus,
                 next4 |-> TaskTable_focus_filter_next(
                               TaskTable_focus_filter_next(
                                   TaskTable_focus_filter_next(next))).filter_bar_focus])

NextPure ==
    \/ \E s \in RawKeyStrings : CallKeyFromStr(s)
    \/ \E s \in RawKeyStrings, mods \in AllMods : CallFromGpui(s, mods)
    \/ \E s \in ParseStrings : CallParse(s)
    \/ \E key \in ChordKeys, mods \in AllMods :
          CallToString(KeyChord_new(key, mods))
    \/ \E c \in Command : CallAsStr(c)
    \/ \E s \in CommandStrings : CallCommandFromStr(s)
    \/ \E projects \in ProjectLists : CallBuild(projects)
    \/ \E projects \in SeqsUpTo([path : TreePaths, count : {1}], 1),
          first \in TreePaths, full_path \in TreePaths :
          CallToggle(projects, first, full_path)
    \/ \E x \in FilterBarFocus : CallFilterFocus(x)

SpecPure == InitKeymap /\ [][NextPure]_vars

(***************************************************************************)
(* Claims about the keymap layer and stack.                                *)
(***************************************************************************)
\* the layers of the stack, by index, that hold an entry for the exact pair
Binding(context, chord) ==
    {i \in 1..Len(layers) :
        \E b \in layers[i] : b.context = context /\ b.chord = chord}

\* the commands some layer of the stack holds for the exact pair
BoundCommands(context, chord) ==
    {b.command : b \in {e \in UNION {layers[i] : i \in 1..Len(layers)} :
                           e.context = context /\ e.chord = chord}}

\* the command that layer i holds for the exact pair
CommandAt(i, context, chord) ==
    (CHOOSE b \in layers[i] : b.context = context /\ b.chord = chord).command

Newest(S) == CHOOSE i \in S : \A j \in S : j <= i

\* C1: resolving (context, chord) with context /= Global, when some layer
\* binds the exact pair, returns a command bound to that pair; a Global
\* binding of a later-pushed layer never replaces it.
C1_SpecificBeatsGlobal ==
    (/\ ret.op = "resolve"
     /\ ret.context # "Global"
     /\ Binding(ret.context, ret.chord) # {})
        => ret.value \in BoundCommands(ret.context, ret.chord)

\* C1 witness: the older layer binds (Table, j), the newer one binds only
\* (Global, j), to another command, and (Table, j) has been resolved.
C1_Witness ==
    /\ ret.op = "resolve"
    /\ ret.context = "Table"
    /\ Len(layers) = 2
    /\ Binding("Table", ret.chord) = {1}
    /\ Binding("Global", ret.chord) = {2}
    /\ CommandAt(2, "Global", ret.chord) # CommandAt(1, "Table", ret.chord)

\* C2: when no layer binds the exact pair, the result is the (Global, chord)
\* binding of the most recently pushed layer that has one if the context is
\* not Global, and none otherwise.
C2_GlobalFallback ==
    (/\ ret.op = "resolve"
     /\ Binding(ret.context, ret.chord) = {})
        => ret.value =
              IF ret.context # "Global" /\ Binding("Global", ret.chord) # {}
              THEN CommandAt(Newest(Binding("Global", ret.chord)),
                             "Global", ret.chord)
              ELSE NoCmd

\* C2 witness: two layers bind (Global, j) to different commands, none binds
\* (Table, j), and (Table, j) has been resolved.
C2_Witness ==
    /\ ret.op = "resolve"
    /\ ret.context = "Table"
    /\ Binding("Table", ret.chord) = {}
    /\ Binding("Global", ret.chord) = {1, 2}
    /\ CommandAt(1, "Global", ret.chord) # CommandAt(2, "Global", ret.chord)
    /\ ret.value # NoCmd

\* C3: when several layers bind the same exact pair, the result is the
\* command of the most recently pushed of them.
C3_LaterLayerWins ==
    (/\ ret.op = "resolve"
     /\ Binding(ret.context, ret.chord) # {})
        => ret.value = CommandAt(Newest(Binding(ret.context, ret.chord)),
                                 ret.context, ret.chord)

\* C3 witness: the default layer binds (Table, j), a layer pushed after it
\* rebinds the pair to another command, and the pair has been resolved.
C3_Witness ==
    /\ ret.op = "resolve"
    /\ ret.context = "Table"
    /\ Binding("Table", ret.chord) = {1, 2}
    /\ CommandAt(1, "Table", ret.chord) = "SelectNextRow"
    /\ CommandAt(2, "Table", ret.chord) = "SelectPrevRow"

\* C4: a layer's resolve returns a command only for a (context, chord) pair
\* that bind was called with on that layer; a binding made under another
\* context, Global included, is never returned.
C4_LayerExactMatch ==
    (ret.op = "layer_resolve" /\ ret.value # NoCmd)
        => <<ret.context, ret.chord>> \in bound

\* C4 witness: the layer binds the chord under Table and under Global only,
\* and the same chord queried under SidebarProjects resolved to nothing.
C4_Witness ==
    /\ ret.op = "layer_resolve"
    /\ ret.context = "SidebarProjects"
    /\ <<"Table", ret.chord>> \in bound
    /\ <<"Global", ret.chord>> \in bound
    /\ <<"SidebarProjects", ret.chord>> \notin bound
    /\ ret.value = NoCmd

\* C5: resolve leaves the stack as it was; pop_layer on an empty stack
\* returns none; and a push_layer(L) followed by pop_layer() returns L and
\* leaves every (context, chord) pair resolving as before the push.
C5_PushPopRestores ==
    /\ ret.op = "resolve" => ret.before = layers
    /\ (ret.op = "pop" /\ ret.depth = 0) =>
           (ret.value = NoLayer /\ layers = KeymapStack_new)
    /\ snap.st = "popped" => ResolveTable(layers) = snap.table
    /\ (snap.st = "popped" /\ ret.op = "pop") => ret.value = snap.layer

\* C5 witness: a layer that changed the resolution of (Table, j) was pushed
\* on a non-empty stack and popped again.
C5_Witness ==
    /\ snap.st = "popped"
    /\ ret.op = "pop"
    /\ Len(layers) = 1
    /\ ret.value # layers[1]
    /\ ResolveTable(Append(layers, ret.value)) # ResolveTable(layers)

(***************************************************************************)
(* Claims about the root router.                                           *)
(***************************************************************************)
\* the dispatch entry points the last event went through
Entered == {last.calls[i] : i \in DOMAIN last.calls}

\* App::dispatch was called for the last event
Dispatched == last.calls # << >> /\ last.calls[1] = "App"

TableFields == DOMAIN TaskTable_new

SidebarFields == DOMAIN Sidebar_new

SelectionFields == {"selected_page_idx", "selected_global_idx"}

SelectCommands ==
    {"SelectNextRow", "SelectPrevRow", "SelectFirstRow", "SelectLastRow"}

SidebarTargets == {"SidebarProjects", "SidebarTags"}

\* C6: while a modal is open, a key press that resolves to a command other
\* than CloseModal, SaveModal, ModalScrollUp, ModalScrollDown or Sync is
\* swallowed: neither the table's nor the sidebar's dispatch is entered, and
\* the table selection, focus_target and the filter state stay as they were.
C6_ModalSwallows ==
    (/\ last.kind = "key"
     /\ last.modal
     /\ last.command \notin {NoCmd, "CloseModal", "SaveModal", "ModalScrollUp",
                             "ModalScrollDown", "Sync"})
    => /\ Entered \cap {"TaskTable", "Sidebar"} = {}
       /\ last.changed \cap (SelectionFields \cup {"focus_target", "filter_state"}) = {}

\* C7: whenever a modal is open, active_context() is Modal, whatever the
\* focus target and the table's filter-bar focus are.
C7_ModalContext ==
    task_detail_modal.is_open => App_active_context(World) = "Modal"

C9_ProjectRouting ==
    (Dispatched /\ last.command \in {"ExpandProject", "CollapseProject"})
    => last.calls = <<"App", IF last.focus \in SidebarTargets
                             THEN "Sidebar" ELSE "TaskTable">>

\* C9, amended: ExpandProject and CollapseProject go to the sidebar when the
\* focus target is SidebarProjects, and to the table for every other focus
\* target, SidebarTags included; the table does nothing with them.
C9_ProjectRoutingAmended ==
    (Dispatched /\ last.command \in {"ExpandProject", "CollapseProject"})
    => /\ last.calls = <<"App", IF last.focus = "SidebarProjects"
                                THEN "Sidebar" ELSE "TaskTable">>
       /\ last.focus # "SidebarProjects" => last.changed = {}

\* ExpandProject, dispatched with the focus on SidebarTags, went to the table
C9_Witness ==
    /\ Dispatched
    /\ last.command = "ExpandProject"
    /\ last.focus = "SidebarTags"
    /\ last.calls = <<"App", "TaskTable">>

\* C10: with no modal open, active_context() is TextInput when the focus
\* target is Table and the filter-bar focus is the search input, FilterBar
\* when the focus target is Table and the filter-bar focus is a dropdown,
\* and the focus target's own context in every other case.
C10_ActiveContext ==
    ~task_detail_modal.is_open
    => App_active_context(World) =
         IF focus_target = "Table" /\ task_table.filter_bar_focus = "SearchInput"
         THEN "TextInput"
         ELSE IF focus_target = "Table" /\ task_table.filter_bar_focus # "None"
         THEN "FilterBar"
         ELSE CASE focus_target = "App" -> "Global"
                [] focus_target = "Table" -> "Table"
                [] focus_target = "TableHeaders" -> "TableHeaders"
                [] focus_target = "SidebarProjects" -> "SidebarProjects"
                [] focus_target = "SidebarTags" -> "SidebarTags"

\* with no modal open, a key was resolved in the FilterBar context and
\* handled, the focus target is Table and a dropdown still holds the table's
\* filter-bar focus
C10_Witness ==
    /\ ~task_detail_modal.is_open
    /\ last.kind = "key"
    /\ last.context = "FilterBar"
    /\ focus_target = "Table"
    /\ task_table.filter_bar_focus \in {"StatusDropdown", "PriorityDropdown", "DueDropdown"}

ComponentAnswer(who, command) ==
    IF who = "TaskTable"
    THEN TaskTable_dispatch(World, command, Env0).consumed
    ELSE Sidebar_dispatch(World, command).consumed

\* App::dispatch routed the last command to a component whose dispatch
\* returned false
RoutedUnhandled ==
    /\ Dispatched
    /\ Len(last.calls) >= 2
    /\ ~ComponentAnswer(last.calls[2], last.command)

\* C12: when the component a command is routed to does not handle it (its
\* dispatch returns false), the root's dispatch reports the command as not
\* consumed, no state changes and no other component is tried.
C12_UnhandledNotConsumed ==
    RoutedUnhandled
    => /\ last.consumed = Consumed(FALSE)
       /\ last.changed = {}
       /\ Len(last.calls) = 2

\* C12, amended: when the component a command is routed to does not handle
\* it, no state changes and no other component is tried, and the root's
\* dispatch returns true all the same.
C12_UnhandledNoEffect ==
    RoutedUnhandled
    => /\ last.consumed = Consumed(TRUE)
       /\ last.changed = {}
       /\ Len(last.calls) = 2

\* OpenSelectedTask, dispatched with the focus on the table headers, went to
\* the table, which has no arm for it
C12_Witness ==
    /\ last.kind = "dispatch"
    /\ last.command = "OpenSelectedTask"
    /\ last.focus = "TableHeaders"
    /\ last.calls = <<"App", "TaskTable">>
    /\ last.consumed = Consumed(TRUE)

\* the Global chords of Sync and of the filter-clearing commands
RootChords ==
    { [key |-> "r", command |-> "Sync"],
      [key |-> "c", command |-> "ClearAllFilters"],
      [key |-> "p", command |-> "ClearProjectFilter"],
      [key |-> "t", command |-> "ClearTagFilter"],
      [key |-> "x", command |-> "ClearSearchAndDropdowns"] }

\* C13: Ctrl+r, Ctrl+c, Ctrl+p, Ctrl+t and Ctrl+x resolve to Sync,
\* ClearAllFilters, ClearProjectFilter, ClearTagFilter and
\* ClearSearchAndDropdowns in every context of the default keymap; pressed
\* with any focus target and any sub-focus they reach App::dispatch, which
\* returns true, and the focus target is left as it was.
C13_RootCommands ==
    \A g \in RootChords :
       /\ \A c \in ContextId :
             KeymapStack_resolve(AppKeymap, c, KeyChord_new(g.key, Mods_ctrl))
                = g.command
       /\ \E resolved \in {App_resolve_event(World, [key |-> <<g.key>>,
                                                     mods |-> Mods_ctrl])} :
             /\ resolved.command = g.command
             /\ \A env \in EnvsFor(g.command) :
                   \E r \in {App_handle_command(World, resolved, env)} :
                      /\ r.consumed = Consumed(TRUE)
                      /\ r.w.calls = <<"App">>
                      /\ FlushEffects(r.w, env).focus_target = focus_target

\* Ctrl+t was pressed in the search input and cleared the tag filter; the
\* focus target is still the table
C13_Witness ==
    /\ last.kind = "key"
    /\ last.command = "ClearTagFilter"
    /\ last.context = "TextInput"
    /\ last.consumed = Consumed(TRUE)
    /\ "filter_state" \in last.changed
    /\ focus_target = "Table"

\* C14: the App is built with its focus target on Table, and after any key
\* presses and pointer clicks the focus target is one of Table,
\* TableHeaders, SidebarProjects and SidebarTags, never App.
C14_NeverApp ==
    focus_target \in {"Table", "TableHeaders", "SidebarProjects", "SidebarTags"}

\* FocusSidebar, pressed on the table headers, took the catch-all arm of its
\* match on the focus target and brought the focus to the table
C14_Witness ==
    /\ last.kind = "key"
    /\ last.command = "FocusSidebar"
    /\ last.focus = "TableHeaders"
    /\ focus_target = "Table"

\* the last event was a key press that resolved to FocusTable with the focus
\* target on SidebarProjects
FocusTableFromProjects ==
    /\ last.kind = "key"
    /\ last.command = "FocusTable"
    /\ last.focus = "SidebarProjects"

\* C15: when the focus target is SidebarProjects and a key press resolves to
\* FocusTable, the focus target becomes Table and set_section(Projects) is
\* applied to the sidebar.
C15_FocusTableReanchors ==
    FocusTableFromProjects
    => /\ focus_target = "Table"
       /\ sidebar = Sidebar_set_section(sidebar, "Projects")

\* C15, amended: when the focus target is SidebarProjects and a key press
\* resolves to FocusTable, the focus target becomes Table and the sidebar is
\* left as it was, its section and its selected index included.
C15_FocusTableLeavesSidebar ==
    FocusTableFromProjects
    => /\ focus_target = "Table"
       /\ last.changed \cap SidebarFields = {}

\* FocusTable was pressed on the projects of the sidebar with the second
\* item selected, which is still selected
C15_Witness ==
    /\ FocusTableFromProjects
    /\ focus_target = "Table"
    /\ sidebar.selected_section = "Projects"
    /\ sidebar.selected_index = 1

\* the world one key press leaves, no answer of the environment consulted
KeyStep(w, event) ==
    FlushEffects(App_handle_key_down(w, event, Env0).w, Env0)

\* C16: when the focus target is Table, a key press that resolves to
\* FocusSidebar or to FocusTable moves the focus to SidebarProjects or
\* SidebarTags, and the same key pressed again moves it to the other of the
\* two.
C16_SidebarToggle ==
    focus_target = "Table"
    => \A event \in KeyEvents :
          App_resolve_event(World, event).command \in {"FocusSidebar", "FocusTable"}
          => \E once \in {KeyStep(World, event)} :
               \E twice \in {KeyStep(once, event)} :
                  /\ once.focus_target \in SidebarTargets
                  /\ twice.focus_target \in SidebarTargets \ {once.focus_target}

\* the commands handle_key_down applies in arms of its own
RouterApplied ==
    {"FocusSearch", "FocusTableHeaders", "FocusTable", "FocusFilterNext",
     "FocusFilterPrev"}

\* C17: on a key press, FocusSearch, FocusTableHeaders, FocusTable,
\* FocusFilterNext and FocusFilterPrev are applied by the router and never
\* enter dispatch; every other resolved command enters App::dispatch exactly
\* once. After FocusSearch the focus target is Table and the filter-bar
\* focus SearchInput; after FocusTableHeaders the focus target is
\* TableHeaders and the filter-bar focus None.
C17_RouterOrDispatch ==
    (last.kind = "key" /\ last.command # NoCmd)
    => /\ IF last.command \in RouterApplied
          THEN last.calls = << >> /\ last.consumed = NotDispatched
          ELSE /\ Dispatched
               /\ Cardinality({i \in DOMAIN last.calls : last.calls[i] = "App"}) = 1
       /\ last.command = "FocusSearch"
            => /\ focus_target = "Table"
               /\ task_table.filter_bar_focus = "SearchInput"
       /\ last.command = "FocusTableHeaders"
            => /\ focus_target = "TableHeaders"
               /\ task_table.filter_bar_focus = "None"

\* FocusSearch was pressed on the table headers: the router brought the
\* focus target back to the table and the filter-bar focus to the search
\* input without entering dispatch
C17_Witness ==
    /\ last.kind = "key"
    /\ last.command = "FocusSearch"
    /\ last.focus = "TableHeaders"
    /\ last.calls = << >>
    /\ focus_target = "Table"
    /\ task_table.filter_bar_focus = "SearchInput"

\* the commands the default keymap resolves some chord to in some context
DefaultCommands == {b.command : b \in build_default_keymap}

\* C18: every command the default keymap can resolve to is wired to a
\* handler: the router applies it in an arm of its own, or App::dispatch
\* handles it and returns true; none falls to the catch-all arm of
\* App::dispatch.
C18_DefaultCommandsWired ==
    \A command \in DefaultCommands :
       \/ command \in RouterApplied
       \/ App_dispatch(World, command, Env0).consumed

\* C19: no operation of the table or of the sidebar changes focus_target:
\* not their dispatch of any command, whatever the dropdown answers, and not
\* the focus operations the router calls on the table; an event that entered
\* the dispatch of either left focus_target as it was.
C19_ChildrenLeaveFocusTarget ==
    /\ \A command \in Command :
          /\ \A env \in {e \in Envs : e.tasks = 0 /\ e.sync_ok} :
                TaskTable_dispatch(World, command, env).w.focus_target
                   = focus_target
          /\ Sidebar_dispatch(World, command).w.focus_target = focus_target
    /\ TaskTable_focus_search_input(World).focus_target = focus_target
    /\ TaskTable_blur_search_input(World).focus_target = focus_target
    /\ TaskTable_focus_table_headers(World).focus_target = focus_target
    /\ Sidebar_activate_selected(World).focus_target = focus_target
    /\ Entered \cap {"TaskTable", "Sidebar"} # {}
         => "focus_target" \notin last.changed

\* a selection in the priority dropdown, made with a key, went through the
\* table's dispatch and reloaded the table; the focus target stayed
C19_Witness ==
    /\ last.kind = "key"
    /\ last.command \in {"ToggleDropdown", "SelectNextOption", "SelectPrevOption"}
    /\ last.calls = <<"App", "TaskTable">>
    /\ last.changed \cap TableFields # {}
    /\ "focus_target" \notin last.changed

\* the keys that move the focus: Tab, Shift+Tab and Ctrl+h/j/k/l
FocusKeys ==
    [key : {<<"h">>, <<"j">>, <<"k">>, <<"l">>}, mods : {Mods_ctrl}]
    \cup [key : {<<"t", "a", "b">>}, mods : {Mods_none, Mods_shift}]

\* the worlds at most n presses of these keys lead to from the worlds ws
RECURSIVE KeyReach(_, _)
KeyReach(ws, n) ==
    IF n = 0 THEN ws
    ELSE KeyReach(ws \cup {[KeyStep(w, event) EXCEPT !.calls = << >>] :
                              w \in ws, event \in FocusKeys},
                  n - 1)

\* the focus targets at most MaxKeys key presses away from this state
FocusReach == {w.focus_target : w \in KeyReach({World}, MaxKeys)}

\* C20: the focus-target machine has no terminal state under the default
\* keymap: from every reachable focus target and filter-bar focus some key
\* presses bring the focus target to Table, and from Table some key presses
\* bring it to each of TableHeaders, SidebarProjects and SidebarTags.
C20_NoTerminalFocus ==
    /\ "Table" \in FocusReach
    /\ focus_target = "Table"
         => {"TableHeaders", "SidebarProjects", "SidebarTags"} \subseteq FocusReach

\* the focus is on the tags of the sidebar while a dropdown still holds the
\* table's filter-bar focus, and key presses lead back to the table
C20_Witness ==
    /\ focus_target = "SidebarTags"
    /\ task_table.filter_bar_focus
          \in {"StatusDropdown", "PriorityDropdown", "DueDropdown"}
    /\ last.kind = "key"
    /\ "Table" \in FocusReach

(***************************************************************************)
(* Claims about chords as strings.                                         *)
(***************************************************************************)
\* C21: for every chord built from a named key or a letter, with any of the
\* sixteen combinations of the four modifiers, parsing the string the chord
\* displays as gives the chord back.
C21_ChordRoundTrip ==
    call.op = "KeyChord::to_string" => KeyChord_parse(call.value) = call.chord

\* C22: the key of a live event is the key Key::from_str makes of the same
\* raw string, a rejected string included, so the chord of an event is the
\* chord of that key with the event's modifiers.
C22_ParsePathsAgree ==
    call.op = "KeyChord::from_gpui"
    => call.value = IF Key_from_str(call.s) = NoKey THEN NoChord
                    ELSE KeyChord_new(Key_from_str(call.s), call.mods)

\* the modifier names KeyChord::parse knows, in lower case
ModifierNames ==
    {<<"c", "t", "r", "l">>, <<"a", "l", "t">>, <<"s", "h", "i", "f", "t">>,
     <<"c", "m", "d">>, <<"s", "u", "p", "e", "r">>, <<"p", "l", "a", "t", "f", "o", "r", "m">>}

\* C23: KeyChord::parse fails closed: when a token before the last '+' is
\* none of ctrl, alt, shift, cmd, super, platform in any case, or the last
\* token is no key, the result is none; a chord is returned only when every
\* token in front names a modifier, and no such token is left out of it.
C23_ParseFailsClosed ==
    call.op = "KeyChord::parse"
    => \E parts \in {str_split(call.s, "+")} :
          LET front == SubSeq(parts, 1, Len(parts) - 1)
              garbage == \E i \in DOMAIN front :
                            to_lowercase(front[i]) \notin ModifierNames
              keyless == Key_from_str(parts[Len(parts)]) = NoKey
          IN  /\ (garbage \/ keyless) => call.value = NoChord
              /\ call.value # NoChord
                   => /\ call.value.key = Key_from_str(parts[Len(parts)])
                      /\ Cardinality(call.value.mods)
                            = Cardinality({IF to_lowercase(front[i])
                                                \in {<<"c", "m", "d">>, <<"s", "u", "p", "e", "r">>, <<"p", "l", "a", "t", "f", "o", "r", "m">>}
                                            THEN <<"p", "l", "a", "t", "f", "o", "r", "m">>
                                            ELSE to_lowercase(front[i]) :
                                                i \in DOMAIN front})

\* parse was called with "hyper+j", whose first token names no modifier, and
\* returned none
C23_Witness ==
    /\ call.op = "KeyChord::parse"
    /\ call.s = <<"h", "y", "p", "e", "r", "+", "j">>
    /\ call.value = NoChord

\* the alias of a key name and the name it stands for
KeyAliases ==
    {[alias |-> <<"r", "e", "t", "u", "r", "n">>,
      name |-> <<"e", "n", "t", "e", "r">>],
     [alias |-> <<"e", "s", "c">>,
      name |-> <<"e", "s", "c", "a", "p", "e">>],
     [alias |-> <<"d", "e", "l">>,
      name |-> <<"d", "e", "l", "e", "t", "e">>],
     [alias |-> <<"u", "p">>,
      name |-> <<"a", "r", "r", "o", "w", "u", "p">>],
     [alias |-> <<"d", "o", "w", "n">>,
      name |-> <<"a", "r", "r", "o", "w", "d", "o", "w", "n">>],
     [alias |-> <<"l", "e", "f", "t">>,
      name |-> <<"a", "r", "r", "o", "w", "l", "e", "f", "t">>],
     [alias |-> <<"r", "i", "g", "h", "t">>,
      name |-> <<"a", "r", "r", "o", "w", "r", "i", "g", "h", "t">>]}

\* every string Key::from_str knows as the name of a key, in lower case
KnownKeyNames ==
    {<<"e", "n", "t", "e", "r">>, <<"r", "e", "t", "u", "r", "n">>,
     <<"e", "s", "c">>, <<"e", "s", "c", "a", "p", "e">>,
     <<"b", "a", "c", "k", "s", "p", "a", "c", "e">>,
     <<"d", "e", "l", "e", "t", "e">>, <<"d", "e", "l">>,
     <<"t", "a", "b">>, <<"s", "p", "a", "c", "e">>, <<"u", "p">>,
     <<"a", "r", "r", "o", "w", "u", "p">>, <<"d", "o", "w", "n">>,
     <<"a", "r", "r", "o", "w", "d", "o", "w", "n">>,
     <<"l", "e", "f", "t">>,
     <<"a", "r", "r", "o", "w", "l", "e", "f", "t">>,
     <<"r", "i", "g", "h", "t">>,
     <<"a", "r", "r", "o", "w", "r", "i", "g", "h", "t">>,
     <<"p", "a", "g", "e", "u", "p">>,
     <<"p", "a", "g", "e", "d", "o", "w", "n">>, <<"h", "o", "m", "e">>,
     <<"e", "n", "d">>, <<"f", "1">>, <<"f", "2">>, <<"f", "3">>,
     <<"f", "4">>, <<"f", "5">>, <<"f", "6">>, <<"f", "7">>, <<"f", "8">>,
     <<"f", "9">>, <<"f", "1", "0">>, <<"f", "1", "1">>, <<"f", "1", "2">>}

\* C24: Key::from_str maps an alias, in any case, to the key of the name it
\* stands for, a string of a single character to Key::Char of that
\* character, and every other string to none.
C24_KeyFromStr ==
    call.op = "Key::from_str"
    => /\ \A pair \in KeyAliases :
             to_lowercase(call.s) \in {pair.alias, pair.name}
             => call.value = Key_from_str(pair.name) /\ call.value # NoKey
       /\ Len(call.s) = 1 => call.value = call.s[1]
       /\ (Len(call.s) # 1 /\ to_lowercase(call.s) \notin KnownKeyNames)
             => call.value = NoKey

(***************************************************************************)
(* Claims about the command vocabulary.                                    *)
(***************************************************************************)
\* C25: every command of the vocabulary, the modal scroll commands
\* included, has a string identifier that Command::from_str maps back to
\* it, and no two commands share an identifier.
C25_CommandRoundTrip ==
    call.op = "Command::as_str"
    => /\ Command_from_str(call.value) = call.c
       /\ \A other \in Command \ {call.c} : Command_as_str(other) # call.value

(***************************************************************************)
(* Claims about rebinding within one layer.                                *)
(***************************************************************************)
\* C26: within one layer the last bind wins: right after bind(context,
\* chord, command) the layer resolves that pair to that command, whatever
\* it held for the pair before, and every other (context, chord) pair
\* resolves as it did before the bind.
C26_LastBindWins ==
    ret.op = "bind"
    => /\ KeymapLayer_resolve(layer, ret.context, ret.chord) = ret.command
       /\ \A c \in KmContexts, k \in KmChords :
              <<c, k>> # <<ret.context, ret.chord>>
              => KeymapLayer_resolve(layer, c, k)
                     = KeymapLayer_resolve(ret.before, c, k)

\* a bind replaced a different command held for the same pair
C26_Witness ==
    /\ ret.op = "bind"
    /\ KeymapLayer_resolve(ret.before, ret.context, ret.chord)
           \notin {NoCmd, ret.command}
    /\ KeymapLayer_resolve(layer, ret.context, ret.chord) = ret.command

(***************************************************************************)
(* Claims about the project tree.                                          *)
(***************************************************************************)
\* the sum of the counts of the projects of a list that satisfy Keep
RECURSIVE CountSum(_, _)
CountSum(projects, keep) ==
    IF projects = << >> THEN 0
    ELSE (IF Head(projects).path \in keep THEN Head(projects).count ELSE 0)
         + CountSum(Tail(projects), keep)

\* path is prefix followed by a dot and more
DottedPrefix(prefix, path) ==
    /\ Len(path) > Len(prefix)
    /\ SubSeq(path, 1, Len(prefix) + 1) = prefix \o <<".">>

\* C27: build_from_projects aggregates counts up the dotted path: every
\* node's task_count is the sum of the counts of the input projects whose
\* path is the node's path or has it as a dotted prefix, and its
\* direct_task_count is the sum of the counts of the input projects whose
\* path is exactly the node's path.
C27_CountsAggregate ==
    call.op = "ProjectTree::build_from_projects"
    => \A i \in DOMAIN call.tree.nodes :
          LET node == call.tree.nodes[i]
              under == {p \in TreePaths :
                           p = node.full_path \/ DottedPrefix(node.full_path, p)}
          IN  /\ node.task_count = CountSum(call.projects, under)
              /\ node.direct_task_count
                     = CountSum(call.projects, {node.full_path})

\* the expansion state of a tree: the paths of its expanded nodes
ExpandedNodes(t) ==
    {t.nodes[i].full_path : i \in {k \in DOMAIN t.nodes : t.nodes[k].is_expanded}}

\* C28: toggle_expansion(path) flips is_expanded of exactly the node with
\* that path and leaves every other node, and everything else of a node,
\* unchanged; applying it twice restores the expansion state; the nodes of
\* a tree built from a new ProjectTree start collapsed; a path that is not
\* in the tree is a no-op.
C28_ToggleExpansion ==
    call.op = "ProjectTree::toggle_expansion"
    => LET before == call.before
           after == call.value
           hit == {i \in DOMAIN before.nodes :
                      before.nodes[i].full_path = call.full_path}
       IN  /\ ExpandedNodes(call.built) = {}
           /\ DOMAIN after.nodes = DOMAIN before.nodes
           /\ after.root_indices = before.root_indices
           /\ \A i \in DOMAIN before.nodes :
                 after.nodes[i] =
                     [before.nodes[i] EXCEPT !.is_expanded =
                          IF i \in hit THEN ~@ ELSE @]
           /\ hit = {} => after = before
           /\ Cardinality(hit) <= 1
           /\ ExpandedNodes(ProjectNodes_toggle_expansion(after, call.full_path))
                  = ExpandedNodes(before)

\* a node other than the first was toggled in a tree of several nodes, one
\* of them expanded already
C28_Witness ==
    /\ call.op = "ProjectTree::toggle_expansion"
    /\ Len(call.before.nodes) >= 2
    /\ ExpandedNodes(call.before) # {}
    /\ call.full_path \notin ExpandedNodes(call.before)
    /\ ExpandedNodes(call.value) = ExpandedNodes(call.before) \cup {call.full_path}
    /\ call.before.nodes[1].full_path # call.full_path

(***************************************************************************)
(* Claims about the state the App's handlers leave.                        *)
(***************************************************************************)
\* C29: after a key press that resolves to FocusTable, which the router
\* applies, the focus target is Table and the active context of the next
\* key event is Table: no filter-bar focus left over makes it TextInput or
\* FilterBar.
C29_FocusTableContext ==
    (last.kind = "key" /\ last.command = "FocusTable")
    => /\ focus_target = "Table"
       /\ App_active_context(World) = "Table"

\* C30: in every reachable state the two selection indices of the table
\* agree: both are None or both are Some, and when Some the global index is
\* the first item index of the current page plus the page index, and is
\* less than the number of rows.
C30_SelectionConsistent ==
    /\ task_table.selected_page_idx = NoIdx
           <=> task_table.selected_global_idx = NoIdx
    /\ task_table.selected_global_idx # NoIdx
       => /\ task_table.selected_global_idx
                 = PaginationState_first_item_index(task_table)
                       + task_table.selected_page_idx
          /\ task_table.selected_global_idx < task_table.total_items

(***************************************************************************)
(* The table under the four row-selection commands alone, from a fresh     *)
(* load.                                                                   *)
(***************************************************************************)
RowCommands ==
    {"SelectNextRow", "SelectPrevRow", "SelectFirstRow", "SelectLastRow"}

NextRows == \E command \in RowCommands : Dispatch(command)

SpecRows == Init /\ [][NextRows]_vars

(***************************************************************************)
(* Claims about the table's selection and pages.                           *)
(***************************************************************************)
\* the selected row, if any, is one of the rows of the displayed page
OnPage(t) ==
    t.selected_global_idx # NoIdx
    => /\ PaginationState_first_item_index(t) <= t.selected_global_idx
       /\ t.selected_global_idx < PaginationState_last_item_index(t)

\* what C31 asks of one step from table t to table t2 by command
RowStep(t, t2, command) ==
    /\ OnPage(t) /\ OnPage(t2)
    /\ t.total_items > 0 => t2.selected_global_idx # NoIdx
    /\ (command = "SelectNextRow" /\ t.selected_global_idx = t.total_items - 1)
           => t2 = t
    /\ (command = "SelectPrevRow" /\ t.selected_global_idx = 0) => t2 = t
    /\ (command = "SelectNextRow" /\ t2 # t)
           => /\ t2.selected_global_idx = t.selected_global_idx + 1
              /\ t2.current_page - t.current_page =
                     IF t.selected_global_idx + 1 = PaginationState_last_item_index(t)
                     THEN 1 ELSE 0
    /\ (command = "SelectPrevRow" /\ t2 # t)
           => /\ t2.selected_global_idx = t.selected_global_idx - 1
              /\ t.current_page - t2.current_page =
                     IF t.selected_global_idx = PaginationState_first_item_index(t)
                     THEN 1 ELSE 0

\* C31: from a freshly loaded table, under SelectNextRow, SelectPrevRow,
\* SelectFirstRow and SelectLastRow alone, the selected row is always on
\* the displayed page, SelectNextRow on the last row and SelectPrevRow on
\* the first row change nothing, and a step across a page boundary moves
\* the page by exactly one.
C31_RowsStayOnPage ==
    [][RowStep(task_table, task_table', last'.command)]_vars

\* SelectNextRow crossed from the first page to the first row of the second
C31_Witness ==
    /\ last.kind = "dispatch"
    /\ last.command = "SelectNextRow"
    /\ "current_page" \in last.changed
    /\ task_table.current_page = 2
    /\ task_table.selected_page_idx = 0
    /\ task_table.selected_global_idx = PageSize

\* max(1, ceil(total_items / page_size)): the last page that holds rows
LastPageWithRows(t) == IF LastPage(t) < 1 THEN 1 ELSE LastPage(t)

\* C32: the current page stays within 1 ..= max(1, ceil(total_items /
\* page_size)): the table never shows a page past the last page that holds
\* rows.
C32_PageInRange ==
    /\ 1 <= task_table.current_page
    /\ task_table.current_page <= LastPageWithRows(task_table)

\* the usize subtractions a - b, as pairs <<a, b>>, that the select_*
\* operations and first_item_index evaluate when called on table t
SelectSubtractions(t) ==
    LET len == t.total_items
        page_first == PaginationState_first_item_index(t)
        page_last == PaginationState_last_item_index(t)
        last_page == LastPage(t)
        at_last_page == [t EXCEPT !.current_page = last_page]
        to_last_row ==
            {<<len, 1>>, <<last_page, 1>>,
             <<len - 1, PaginationState_first_item_index(at_last_page)>>}
        paged == PaginationState_previous_page(t)
        new_page_size ==
            Min(PaginationState_last_item_index(paged)
                  - PaginationState_first_item_index(paged), PageSize)
    IN  {<<t.current_page, 1>>}
        \cup (IF len = 0 THEN {} ELSE to_last_row)
        \cup (IF len # 0 /\ t.selected_page_idx # NoIdx
                 /\ t.selected_global_idx + 1 < len
              THEN {<<page_last, 1>>} ELSE {})
        \cup (IF len # 0 /\ t.selected_page_idx # NoIdx
                 /\ t.selected_global_idx # 0
              THEN {<<t.selected_global_idx, 1>>}
                   \cup (IF t.selected_global_idx - 1 < page_first
                         THEN {<<paged.current_page, 1>>,
                               <<PaginationState_last_item_index(paged),
                                 PaginationState_first_item_index(paged)>>,
                               <<new_page_size, 1>>}
                         ELSE {})
              ELSE {})

\* C33: in every reachable state the page slice is in bounds,
\* first_item_index() <= last_item_index() <= number of rows, and none of
\* the index subtractions of the select_* operations would underflow.
C33_SliceInBounds ==
    /\ 0 <= PaginationState_first_item_index(task_table)
    /\ PaginationState_first_item_index(task_table)
           <= PaginationState_last_item_index(task_table)
    /\ PaginationState_last_item_index(task_table) <= task_table.total_items
    /\ \A sub \in SelectSubtractions(task_table) : sub[1] >= sub[2]

\* the table shows the empty page past its last row, a row of an earlier
\* page still selected
C33_Witness ==
    /\ task_table.total_items > 0
    /\ PaginationState_first_item_index(task_table) = task_table.total_items
    /\ task_table.selected_global_idx # NoIdx
    /\ task_table.selected_global_idx + 1 = task_table.total_items

(***************************************************************************)
(* Claims about the focus target and the components' own focus state.      *)
(***************************************************************************)
\* C34: in every reachable state the sidebar's selected section matches
\* the focus target: SidebarProjects implies section Projects, SidebarTags
\* implies section Tags.
C34_SectionMatchesFocus ==
    /\ focus_target = "SidebarProjects" => sidebar.selected_section = "Projects"
    /\ focus_target = "SidebarTags" => sidebar.selected_section = "Tags"

\* a click on the sidebar moved the focus from the table to the projects
\* of a sidebar that was showing its tags
C34_Witness ==
    /\ last.kind = "sidebar_mouse_down"
    /\ last.focus = "Table"
    /\ "selected_section" \in last.changed
    /\ focus_target = "SidebarProjects"
    /\ sidebar.selected_section = "Projects"

\* C35: in every reachable state the table has a focused header column if
\* and only if the focus target is TableHeaders.
C35_HeaderIffFocus ==
    task_table.focused_header # "None" <=> focus_target = "TableHeaders"

FilterFocusCommands ==
    {"FocusSearch", "FocusFilterNext", "FocusFilterPrev", "BlurInput",
     "FocusTable", "FocusTableHeaders"}

\* C36: after a key press that resolves to FocusSearch, FocusFilterNext,
\* FocusFilterPrev, BlurInput, FocusTable or FocusTableHeaders, the search
\* text field holds the window's keyboard focus if and only if the table's
\* filter-bar focus is SearchInput.
C36_InputFocusIffSearchInput ==
    (last.kind = "key" /\ last.command \in FilterFocusCommands)
    => (window_focus = "search_input"
            <=> task_table.filter_bar_focus = "SearchInput")

(***************************************************************************)
(* Claims about typing into the search field.                              *)
(***************************************************************************)
\* the keys that type a character: Key::Char of a letter or of any other
\* character the default keymap binds, and Space
PrintableKeys ==
    {LowerCase[i] : i \in DOMAIN LowerCase}
    \cup {UpperCase[i] : i \in DOMAIN UpperCase}
    \cup ({DefaultBindings[i][2] : i \in DOMAIN DefaultBindings} \ NamedKeys)
    \cup {"Space"}

\* the key-down events that type a character: a single-character key or
\* the space key, with no modifier or shift alone
TypingEvents ==
    {e \in KeyEvents :
        /\ e.mods \in {Mods_none, Mods_shift}
        /\ KeyChord_from_gpui(e) # NoChord
        /\ KeyChord_from_gpui(e).key \in PrintableKeys}

\* C37: with the default keymap layer alone, in context TextInput every
\* chord whose key is a printable character or Space and whose modifiers
\* are none or shift alone resolves to no command: while the search field
\* is the active context, no typing key press resolves to a command.
C37_TypingResolvesNothing ==
    /\ \A key \in PrintableKeys, mods \in {Mods_none, Mods_shift} :
          KeymapStack_resolve(layers, "TextInput", KeyChord_new(key, mods)) = NoCmd
    /\ App_active_context(World) = "TextInput"
       => \A e \in TypingEvents : App_resolve_event(World, e).command = NoCmd
    /\ (last.kind = "key" /\ last.context = "TextInput" /\ last.command # NoCmd)
       => \E i \in DOMAIN DefaultBindings :
             /\ DefaultBindings[i][4] = last.command
             /\ DefaultBindings[i][1] \in {"TextInput", "Global"}
             /\ ~(DefaultBindings[i][2] \in PrintableKeys
                  /\ DefaultBindings[i][3] \in {Mods_none, Mods_shift})

\* a key was pressed while the search field was the active context and
\* resolved to nothing, and j, which selects the next row in the table, is
\* among the typing events
C37_Witness ==
    /\ last.kind = "key"
    /\ last.context = "TextInput"
    /\ last.command = NoCmd
    /\ App_active_context(World) = "TextInput"
    /\ [key |-> <<"j">>, mods |-> Mods_none] \in TypingEvents
    /\ KeymapStack_resolve(layers, "Table", KeyChord_new("j", Mods_none))
           = "SelectNextRow"

(***************************************************************************)
(* Claims about the rotation of the filter bar focus.                      *)
(***************************************************************************)
\* the cycle SearchInput -> StatusDropdown -> PriorityDropdown -> DueDropdown
FilterCycle ==
    <<"SearchInput", "StatusDropdown", "PriorityDropdown", "DueDropdown">>

FilterCycleIndex(x) == CHOOSE i \in 1..Len(FilterCycle) : FilterCycle[i] = x

\* C38: focus_filter_next and focus_filter_prev are inverse rotations of the
\* cycle SearchInput -> StatusDropdown -> PriorityDropdown -> DueDropdown:
\* from each of the four values next yields its successor and prev its
\* predecessor on the cycle, prev after next and next after prev give the
\* value back, four applications of next return to it, and from no value,
\* None included, does either operation yield None.
C38_FilterRotation ==
    call.op = "TaskTable::focus_filter"
    => /\ call.next # "None"
       /\ call.prev # "None"
       /\ call.focus # "None"
          => LET i == FilterCycleIndex(call.focus)
             IN  /\ call.next = FilterCycle[(i % 4) + 1]
                 /\ call.prev = FilterCycle[((i + 2) % 4) + 1]
                 /\ call.prev_next = call.focus
                 /\ call.next_prev = call.focus
                 /\ call.next4 = call.focus

\* prev was applied after next to the status dropdown, and gave it back by
\* way of the priority dropdown
C38_Witness ==
    /\ call.op = "TaskTable::focus_filter"
    /\ call.focus = "StatusDropdown"
    /\ call.next = "PriorityDropdown"
    /\ call.prev = "SearchInput"
    /\ call.prev_next = "StatusDropdown"

(***************************************************************************)
(* Claims about the pointer.                                               *)
(***************************************************************************)
\* C39: a click inside the table area, on a row or elsewhere, leaves the
\* focus target Table whatever it was; a click inside the sidebar area
\* leaves the focus target SidebarProjects and the section Projects when
\* the focus target was no sidebar variant, and changes neither the focus
\* target nor the section when it was SidebarProjects or SidebarTags.
C39_PointerFocus ==
    /\ last.kind \in {"table_mouse_down", "row_click"}
       => focus_target = "Table"
    /\ (last.kind = "sidebar_mouse_down" /\ ~FocusTarget_is_sidebar(last.focus))
       => /\ focus_target = "SidebarProjects"
          /\ sidebar.selected_section = "Projects"
    /\ (last.kind = "sidebar_mouse_down" /\ FocusTarget_is_sidebar(last.focus))
       => /\ focus_target = last.focus
          /\ "focus_target" \notin last.changed
          /\ "selected_section" \notin last.changed

\* the sidebar was clicked while the focus target was SidebarTags, and
\* still shows its tags
C39_Witness ==
    /\ last.kind = "sidebar_mouse_down"
    /\ last.focus = "SidebarTags"
    /\ focus_target = "SidebarTags"
    /\ sidebar.selected_section = "Tags"
    /\ last.changed = {}

====
